---- MODULE Spec2Model ----
(***************************************************************************)
(* openclaw-dchat: the NKN connection bus (nkn-bus.ts), the dedup tracker  *)
(* (seen-tracker.ts) and the account driver (channel.ts, startAccount).    *)
(*                                                                         *)
(* Specifications:                                                         *)
(*   Spec         the plugin as the host runs it: every startAccount run   *)
(*                owns one NknBus and one SeenTracker, calls connect once  *)
(*                and disconnect in its finally block;                     *)
(*   FairSpec     Spec under the event loop's scheduling guarantees;       *)
(*   SpecInbound  one run and the frames its relay client delivers;        *)
(*   SpecBus      one NknBus under an arbitrary single-threaded caller of  *)
(*                its public methods (connect, disconnect, send, ...).     *)
(*                                                                         *)
(* JavaScript runs each callback to its next await; every await is a       *)
(* point where other callbacks, and calls of the host, may run.  An action *)
(* below is one such run-to-completion segment.                            *)
(***************************************************************************)
EXTENDS Integers, Sequences, FiniteSets, TLC

\* ---------------------------------------------------------------- bounds
MaxRuns == 2        \* startAccount invocations (Spec)
MaxCalls == 2       \* connect calls on the one bus of SpecBus
MaxHandlers == 2    \* inbound handlers in flight at the same time
NumIds == 3         \* distinct message ids on the wire
MaxSize == 2        \* capacity of a driver's SeenTracker: stands for the
                    \* default 10_000 (seen-tracker.ts:10), scaled down so
                    \* that evictions happen

NULL == 0           \* null / undefined

Runs == 1..MaxRuns
Conn == 1..(IF MaxCalls > MaxRuns THEN MaxCalls ELSE MaxRuns)  \* connect calls; call k builds client k
Handlers == 1..MaxHandlers
MsgIds == 1..NumIds
Accounts == {"default", "work"}
SubLinks == {NULL, 1}               \* NULL: no __N__. prefix
ContentClass == {"text", "receipt", "other"}   \* one displayable type, one control
                                              \*   type, one type that is neither
ControlTypes == {"receipt"}
DisplayableTypes == {"text"}

VARIABLES
  bus,          \* bus[b]: [client, state, address] of NknBus b
  closeCalled,  \* relay clients on which close() was called
  att,          \* att[k]: the k-th connect call
  sig,          \* sig[k]: the AbortSignal of call / run k: "none" (not given), "live",
                \*   "fired", or "prefired" (fired before connect was called)
  msgCb,        \* msgCb[c]: the bus whose connect registered client c's onMessage, or NULL
  run,          \* run[r]: the r-th startAccount invocation
  busMap,       \* busMap[a]: the run whose bus is registered for account a, or NULL
  seenMap,      \* seenMap[a]: likewise for the SeenTracker
  seen,         \* seen[r]: the Map of run r's SeenTracker, keys in insertion order
  handlerOn,    \* handlerOn[r]: bus.onMessage(handler) was called on run r's bus
  hd,           \* hd[h]: an inbound handler in flight
  passed,       \* history: passed[r][i] frames with id i let through the gate since i was last inserted
  lastFrame,    \* history: what became of the frame delivered last and what that
                \*   frame was ("resumed" once a handler has resumed after that)
  everConn,     \* history: everConn[b]: bus b has been in state connected
  lastOp,       \* history: the last send / subscribe call on the bus
  cfg,          \* cfg[a]: the dmPolicy configured for account a
  ev,           \* history: what the last step of an inbound handler did
  wire,         \* the last call of a wire.ts function under test, with its result
  tk            \* a SeenTracker under test: its Map, its maxSize, its caller's
                \*   position, and history: recency order and the last call

busVars == <<bus, closeCalled, att, sig, msgCb, everConn, lastOp>>
drvVars == <<run, busMap, seenMap, seen, handlerOn, hd, passed, lastFrame, tk, cfg, ev, wire>>
vars == <<bus, closeCalled, att, sig, msgCb, everConn, lastOp,
          run, busMap, seenMap, seen, handlerOn, hd, passed, lastFrame, tk, cfg, ev, wire>>

Fired(s) == s \in {"fired", "prefired"}

\* ---------------------------------------------------------- SeenTracker
Has(s, id) == \E i \in 1..Len(s) : s[i] = id

Remove(s, id) == SelectSeq(s, LAMBDA x : x # id)

evictNever(s, maxSize) == s

RECURSIVE evict(_, _)
evict(s, maxSize) ==
  IF Len(s) > maxSize /\ Len(s) > 0 THEN evict(Tail(s), maxSize) ELSE s

\* evict() never returns: the loop condition holds with nothing left to delete
\* (oldest === undefined), so the body changes nothing.
RECURSIVE evictHangs(_, _)
evictHangs(s, maxSize) ==
  IF Len(s) > maxSize
    THEN (IF Len(s) = 0 THEN TRUE ELSE evictHangs(Tail(s), maxSize))
    ELSE FALSE

markSeenNoInsert(s, id, maxSize) == s

markSeenNoRefresh(s, id, maxSize) ==
  IF Has(s, id) THEN s ELSE evict(Append(s, id), maxSize)

markSeen(s, id, maxSize) == evict(Append(Remove(s, id), id), maxSize)

markSeenHangs(s, id, maxSize) == evictHangs(Append(Remove(s, id), id), maxSize)

checkAndMarkAlwaysNew(s, id, maxSize) ==
  [seen |-> markSeen(s, id, maxSize), already |-> FALSE]

clear(s) == <<>>

checkAndMarkNoMark(s, id, maxSize) == [seen |-> s, already |-> Has(s, id)]

checkAndMark(s, id, maxSize) ==
  IF Has(s, id) THEN [seen |-> s, already |-> TRUE]
  ELSE [seen |-> markSeen(s, id, maxSize), already |-> FALSE]

\* ------------------------------------------- a caller of one SeenTracker
TrackerIds == 1..(NumIds + 1)

\* Capacities a tracker is constructed with; AnyCaps adds a negative one, which
\* the constructor accepts as well.
TrackerCaps == 0..(MaxSize + 1)

AnyCaps == {-1} \cup TrackerCaps

NoCall == [op |-> "none", id |-> NULL, ret |-> FALSE, evicted |-> 0]

\* new SeenTracker(maxSize)
Tk0(maxSize) == [map |-> <<>>, maxSize |-> maxSize, pc |-> "idle", order |-> <<>>,
                 last |-> NoCall]

\* history: the ids held by map m, least recently touched first, after id was
\* touched by markSeen or inserted by checkAndMark
Touch(order, id, m) == SelectSeq(Append(Remove(order, id), id), LAMBDA x : Has(m, x))

\* history: the call made last
Call(op, id, ret, before, m) ==
  [op |-> op, id |-> id, ret |-> ret,
   evicted |-> Cardinality({x \in TrackerIds : (Has(before, x) \/ x = id) /\ ~Has(m, x)})]

\* hasSeen(id)
TrackerHasSeen(id) ==
  /\ tk.pc = "idle"
  /\ tk' = [tk EXCEPT !.last = Call("hasSeen", id, Has(tk.map, id), tk.map, tk.map)]
  /\ UNCHANGED <<busVars, run, busMap, seenMap, seen, handlerOn, hd, passed, lastFrame, cfg, ev, wire>>

\* markSeen(id)
TrackerMarkSeen(id) ==
  /\ tk.pc = "idle"
  /\ IF markSeenHangs(tk.map, id, tk.maxSize)
       THEN tk' = [tk EXCEPT !.pc = "hung", !.last = Call("markSeen", id, FALSE, <<>>, <<>>)]
       ELSE LET m == markSeen(tk.map, id, tk.maxSize)
            IN tk' = [tk EXCEPT !.map = m, !.order = Touch(tk.order, id, m),
                                !.last = Call("markSeen", id, FALSE, tk.map, m)]
  /\ UNCHANGED <<busVars, run, busMap, seenMap, seen, handlerOn, hd, passed, lastFrame, cfg, ev, wire>>

\* checkAndMark(id)
TrackerCheckAndMark(id) ==
  /\ tk.pc = "idle"
  /\ IF ~Has(tk.map, id) /\ markSeenHangs(tk.map, id, tk.maxSize)
       THEN tk' = [tk EXCEPT !.pc = "hung",
                             !.last = Call("checkAndMark", id, FALSE, <<>>, <<>>)]
       ELSE LET g == checkAndMark(tk.map, id, tk.maxSize)
            IN tk' = [tk EXCEPT !.map = g.seen,
                                !.order = IF g.already THEN SelectSeq(tk.order, LAMBDA x : Has(g.seen, x))
                                          ELSE Touch(tk.order, id, g.seen),
                                !.last = Call("checkAndMark", id, g.already, tk.map, g.seen)]
  /\ UNCHANGED <<busVars, run, busMap, seenMap, seen, handlerOn, hd, passed, lastFrame, cfg, ev, wire>>

\* clear()
TrackerClear ==
  /\ tk.pc = "idle"
  /\ tk' = [tk EXCEPT !.map = clear(tk.map), !.order = <<>>,
                      !.last = [op |-> "clear", id |-> NULL, ret |-> FALSE, evicted |-> 0]]
  /\ UNCHANGED <<busVars, run, busMap, seenMap, seen, handlerOn, hd, passed, lastFrame, cfg, ev, wire>>

\* ------------------------------------------------------------- NknBus
Bus0 == [client |-> NULL, state |-> "disconnected", address |-> NULL]

\* A connect call: where it stands (pc), its promise, its 30 s timer, its abort
\* listener, its onConnect callback, how it ended, and the client on which its
\* success path registered an onMessage callback.
Att0 == [pc |-> "idle", bus |-> NULL, promise |-> "none", timer |-> FALSE,
         listener |-> FALSE, onConnect |-> FALSE, first |-> "none", outcome |-> "none",
         onMessage |-> NULL]

\* Call a has constructed its MultiClient.
Created(a) == a.pc \in {"pending", "done"} /\ a.outcome # "ctorError"

\* The address the relay assigns to client c.
AddrOf(c) == c

\* The record of call a once it has returned with outcome o.  Its timer is
\* cleared or has fired; its abort listener and onConnect callback may still
\* be registered but can only settle a promise that is settled, so they are
\* recorded as gone.
Done(a, o) == [a EXCEPT !.pc = "done", !.outcome = o, !.listener = FALSE,
                        !.onConnect = FALSE, !.timer = FALSE]

settleLast(p, v) == v

\* A promise settles once: later resolve / reject calls change nothing.
settle(p, v) == IF p = "pending" THEN v ELSE p

\* history: the first of the three completion sources that fired
First(a, v) == IF a.first = "none" THEN v ELSE a.first

disconnectKeepsAddress(bs, closeFails) ==
  [bus |-> [client |-> NULL, state |-> "disconnected", address |-> bs.address],
   closes |-> IF bs.client # NULL THEN {bs.client} ELSE {},
   threw |-> FALSE]

disconnectNoCatch(bs, closeFails) ==
  IF bs.client # NULL /\ closeFails
    THEN [bus |-> bs, closes |-> {bs.client}, threw |-> TRUE]
    ELSE [bus |-> Bus0, closes |-> IF bs.client # NULL THEN {bs.client} ELSE {},
          threw |-> FALSE]

\* disconnect(): the reconnect timer is never set anywhere, so clearing it does
\* nothing; an error of close() is swallowed.
disconnect(bs, closeFails) ==
  [bus |-> [client |-> NULL, state |-> "disconnected", address |-> NULL],
   closes |-> IF bs.client # NULL THEN {bs.client} ELSE {},
   threw |-> FALSE]

\* connect(), from `this.seed = opts.seed` to the await of the promise, and the
\* catch block when the MultiClient constructor throws.  bs is the bus as the
\* call finds it, a the call's record, k the client it builds, sigNow its signal.
connectBegin(bs, a, k, sigNow, ctorThrows) ==
  IF ctorThrows
    THEN [bus |-> [bs EXCEPT !.state = "disconnected", !.client = NULL],
          closes |-> IF bs.client # NULL THEN {bs.client} ELSE {},
          att |-> Done(a, "ctorError")]
    ELSE [bus |-> [bs EXCEPT !.state = "connecting", !.client = k],
          closes |-> {},
          att |-> IF Fired(sigNow)
                    THEN [a EXCEPT !.pc = "pending", !.promise = "aborted",
                                   !.first = "aborted"]
                    ELSE [a EXCEPT !.pc = "pending", !.promise = "pending",
                                   !.timer = TRUE, !.listener = (sigNow = "live"),
                                   !.onConnect = TRUE]]

connectResumeKeepsState(bs, a) ==
  IF a.promise = "resolved" /\ bs.client # NULL
    THEN [bus |-> [bs EXCEPT !.address = AddrOf(bs.client), !.state = "connected"],
          closes |-> {}, registers |-> bs.client,
          att |-> [Done(a, "ok") EXCEPT !.onMessage = bs.client]]
    ELSE [bus |-> [bs EXCEPT !.client = NULL],
          closes |-> IF bs.client # NULL THEN {bs.client} ELSE {},
          registers |-> NULL,
          att |-> Done(a, a.promise)]

\* connect(), after the await: the success path, or the catch block.
connectResume(bs, a) ==
  IF a.promise = "resolved"
    THEN IF bs.client = NULL
           THEN \* this.client.addr on null throws a TypeError; catch
                [bus |-> [bs EXCEPT !.state = "disconnected"],
                 closes |-> {}, registers |-> NULL,
                 att |-> Done(a, "typeError")]
           ELSE [bus |-> [bs EXCEPT !.address = AddrOf(bs.client), !.state = "connected"],
                 closes |-> {}, registers |-> bs.client,
                 att |-> [Done(a, "ok") EXCEPT !.onMessage = bs.client]]
    ELSE [bus |-> [bs EXCEPT !.state = "disconnected", !.client = NULL],
          closes |-> IF bs.client # NULL THEN {bs.client} ELSE {},
          registers |-> NULL,
          att |-> Done(a, a.promise)]

ensureConnectedClientOnly(bs) == bs.client # NULL

\* ensureConnected(): TRUE when it does not throw
ensureConnected(bs) == bs.client # NULL /\ bs.state = "connected"

Ever(ec, b, bs) == [ec EXCEPT ![b] = ec[b] \/ bs.state = "connected"]

\* ------------------------------------------------- steps of a connect call
\* The 30 s timer of call k fires.
Timeout(k) ==
  /\ att[k].timer
  /\ att' = [att EXCEPT ![k].timer = FALSE,
                        ![k].promise = settle(att[k].promise, "timeout"),
                        ![k].first = First(att[k], "timeout")]
  /\ UNCHANGED <<bus, closeCalled, sig, msgCb, everConn, lastOp, drvVars>>

\* The relay client of call k delivers its connected notification while the
\* call awaits its promise; the relay client is not part of the repository, and
\* a client that was closed meanwhile may still deliver it.  (Once connect
\* has resumed, the callback changes nothing any more.)
RelayConnected(k) ==
  /\ att[k].onConnect /\ att[k].pc = "pending" /\ att[k].first # "resolved"
  /\ att' = [att EXCEPT ![k].timer = FALSE, ![k].listener = FALSE,
                        ![k].promise = settle(att[k].promise, "resolved"),
                        ![k].first = First(att[k], "resolved")]
  /\ UNCHANGED <<bus, closeCalled, sig, msgCb, everConn, lastOp, drvVars>>

\* The continuation of connect after its promise settled.
AttemptResume(k) ==
  /\ att[k].pc = "pending" /\ att[k].promise # "pending"
  /\ LET b == att[k].bus
         r == connectResume(bus[b], att[k])
     IN /\ bus' = [bus EXCEPT ![b] = r.bus]
        /\ att' = [att EXCEPT ![k] = r.att]
        /\ closeCalled' = closeCalled \cup r.closes
        /\ msgCb' = IF r.registers # NULL THEN [msgCb EXCEPT ![r.registers] = b] ELSE msgCb
        /\ everConn' = Ever(everConn, b, r.bus)
  /\ UNCHANGED <<sig, lastOp, drvVars>>

\* ------------------------------------------------------ the account driver
Run0 == [pc |-> "idle", acct |-> "default", hasBus |-> FALSE, closeFailed |-> FALSE]

Hd0 == [pc |-> "free", run |-> NULL, id |-> NULL, kind |-> "none", policy |-> "none"]

\* gateway.startAccount up to `await bus.connect(...)`: the bus has no client
\* yet, so connect runs to the await of its promise without yielding.
StartAccount(r, a, hasSeed, sigInit, ctorThrows) ==
  /\ run[r].pc = "idle"
  /\ \A q \in Runs : q < r => run[q].pc # "idle"
  /\ IF ~hasSeed
       THEN /\ run' = [run EXCEPT ![r] = [Run0 EXCEPT !.pc = "done"]]
            /\ UNCHANGED <<tk, wire, cfg, ev, busVars, busMap, seenMap, seen, handlerOn, hd, passed, lastFrame>>
       ELSE LET c == connectBegin(bus[r], [att[r] EXCEPT !.bus = r], r, sigInit, ctorThrows)
            IN /\ run' = [run EXCEPT ![r] = [Run0 EXCEPT !.pc = "connecting", !.acct = a,
                                                        !.hasBus = TRUE]]
               /\ busMap' = [busMap EXCEPT ![a] = r]
               /\ seenMap' = [seenMap EXCEPT ![a] = r]
               /\ sig' = [sig EXCEPT ![r] = sigInit]
               /\ bus' = [bus EXCEPT ![r] = c.bus]
               /\ att' = [att EXCEPT ![r] = c.att]
               /\ closeCalled' = closeCalled \cup c.closes
               /\ UNCHANGED <<tk, wire, cfg, ev, msgCb, everConn, lastOp, seen, handlerOn, hd, passed, lastFrame>>

\* The finally block up to `await bus.disconnect()`; were disconnect to throw,
\* the error would leave startAccount with the rest of the block not run.
Finally(r, closeFails) ==
  LET d == disconnect(bus[r], closeFails)
  IN /\ bus' = [bus EXCEPT ![r] = d.bus]
     /\ closeCalled' = closeCalled \cup d.closes
     /\ run' = [run EXCEPT ![r].pc = IF d.threw THEN "crashed" ELSE "finally",
                           ![r].closeFailed = (closeFails /\ bus[r].client # NULL)]

\* startAccount resumes after connect returned or threw.  On success it
\* registers the inbound handler and waits for the abort signal, if there is
\* one; on failure, or when a call of the host (ctx.setStatus, the logger)
\* throws, it runs catch and finally.
RunAfterConnect(r, hostThrows, closeFails) ==
  /\ run[r].pc = "connecting" /\ att[r].pc = "done"
  /\ IF att[r].outcome = "ok" /\ ~hostThrows /\ sig[r] # "none"
       THEN /\ run' = [run EXCEPT ![r].pc = "waiting"]
            /\ handlerOn' = [handlerOn EXCEPT ![r] = TRUE]
            /\ UNCHANGED <<bus, closeCalled>>
       ELSE /\ handlerOn' = [handlerOn EXCEPT ![r] = (att[r].outcome = "ok" /\ ~hostThrows)]
            /\ Finally(r, closeFails)
  /\ UNCHANGED <<tk, wire, cfg, ev, att, sig, msgCb, everConn, lastOp, busMap, seenMap, seen, hd, passed,
                 lastFrame>>

\* The host fires the abort signal k: the listeners registered on it run.
\* (Aborting a run that has ended reaches no listener and is left out.)
AbortFire(k) ==
  /\ sig[k] = "live"
  /\ k \in Runs => run[k].pc # "done"
  /\ sig' = [sig EXCEPT ![k] = "fired"]
  /\ att' = IF att[k].listener
              THEN [att EXCEPT ![k].listener = FALSE, ![k].timer = FALSE,
                               ![k].promise = settle(att[k].promise, "aborted"),
                               ![k].first = First(att[k], "aborted")]
              ELSE att
  /\ run' = IF k \in Runs /\ run[k].pc = "waiting"
              THEN [run EXCEPT ![k].pc = "woken"] ELSE run
  /\ UNCHANGED <<tk, wire, cfg, ev, bus, closeCalled, msgCb, everConn, lastOp, busMap, seenMap,
                 seen, handlerOn, hd, passed, lastFrame>>

\* The wait for the abort signal is over: the finally block.
RunWoken(r, closeFails) ==
  /\ run[r].pc = "woken"
  /\ Finally(r, closeFails)
  /\ UNCHANGED <<tk, wire, cfg, ev, att, sig, msgCb, everConn, lastOp, busMap, seenMap, seen, handlerOn, hd,
                 passed, lastFrame>>

finallyDeleteNothing(m, a) == m
finallyDeleteAll(m, a) == [b \in DOMAIN m |-> NULL]

\* busMap.delete(accountId), seenMap.delete(accountId)
finallyDelete(m, a) == [m EXCEPT ![a] = NULL]

\* The finally block after `await bus.disconnect()`.
RunFinally(r) ==
  /\ run[r].pc = "finally"
  /\ run' = [run EXCEPT ![r].pc = "done", ![r].closeFailed = FALSE]
  /\ busMap' = finallyDelete(busMap, run[r].acct)
  /\ seenMap' = finallyDelete(seenMap, run[r].acct)
  /\ UNCHANGED <<tk, wire, cfg, ev, busVars, seen, handlerOn, hd, passed, lastFrame>>

\* ------------------------------------------------------ the inbound handler
\* What JSON.parse makes of a payload: it throws, or yields null, a scalar, an
\* array or an object.
Shapes == {"notJson", "null", "scalar", "array", "object"}

\* A frame as the relay client hands it over.  id is NULL and ct "missing" when
\* the payload has no such member; topic and groupId tell whether it has those.
FramesOver(ids) ==
  [id : ids, sub : SubLinks, shape : {"object"}, ct : ContentClass, topic : {FALSE}, groupId : {FALSE}]
    \cup [id : {NULL}, sub : {NULL}, shape : {"notJson"}, ct : {"missing"}, topic : {FALSE}, groupId : {FALSE}]

Frames == FramesOver(MsgIds)

\* Every kind of frame: the payloads parseNknPayload rejects, one by one, and
\* well-formed envelopes of every content class and addressing.
PipelineIds == 1..(NumIds - 1)
PipelineFrames ==
  [id : {NULL}, sub : {NULL}, shape : Shapes \ {"object"}, ct : {"missing"}, topic : {FALSE}, groupId : {FALSE}]
    \cup {f \in [id : PipelineIds \cup {NULL}, sub : {NULL}, shape : {"object"},
                 ct : ContentClass \cup {"missing"}, topic : BOOLEAN, groupId : BOOLEAN] :
            (f.id = NULL \/ f.ct = "missing") => (~f.topic /\ ~f.groupId)}

\* What a frame is, read off the payload itself: "rejected" if it is not JSON,
\* not an object at top level, or an object without id or without
\* contentType; else "skipped" if its content type is a control type or not a
\* displayable type; else "group" if it carries a topic or a group id, and
\* "direct" if not.
Rejected(f) == f.shape # "object" \/ f.id = NULL \/ f.ct = "missing"

FrameClass(f) ==
  IF Rejected(f) THEN "rejected"
  ELSE IF f.ct \in ControlTypes \/ f.ct \notin DisplayableTypes THEN "skipped"
  ELSE IF f.topic \/ f.groupId THEN "group"
  ELSE "direct"

\* null as parseNknPayload and nknToInbound return it
NoMsg == [id |-> NULL, ct |-> "missing", topic |-> FALSE, groupId |-> FALSE]
NoInbound == [chatType |-> "none"]

\* wire.ts parseNknPayload
parseNknPayloadIdOnly(f) ==
  IF f.shape = "notJson" THEN NoMsg
  ELSE IF f.shape \in {"null", "scalar"} THEN NoMsg
  ELSE IF f.id = NULL THEN NoMsg
  ELSE [id |-> f.id, ct |-> f.ct, topic |-> f.topic, groupId |-> f.groupId]

parseNknPayload(f) ==
  IF f.shape = "notJson" THEN NoMsg                     \* JSON.parse throws: caught
  ELSE IF f.shape \in {"null", "scalar"} THEN NoMsg     \* !parsed || typeof parsed !== "object"
  ELSE IF f.id = NULL \/ f.ct = "missing" THEN NoMsg    \* !parsed.id || !parsed.contentType
  ELSE [id |-> f.id, ct |-> f.ct, topic |-> f.topic, groupId |-> f.groupId]

\* wire.ts nknToInbound: null for a control or a non-displayable content type,
\* else the chat type (the other fields of the result are not modelled here)
nknToInboundControlOnly(msg) ==
  IF msg.ct \in ControlTypes THEN NoInbound
  ELSE [chatType |-> IF msg.topic \/ msg.groupId THEN "group" ELSE "direct"]

nknToInboundAnswersControl(msg) ==
  IF msg.ct \notin DisplayableTypes \cup ControlTypes THEN NoInbound
  ELSE [chatType |-> IF msg.topic \/ msg.groupId THEN "group" ELSE "direct"]

nknToInbound(msg) ==
  IF msg.ct \in ControlTypes THEN NoInbound
  ELSE IF msg.ct \notin DisplayableTypes THEN NoInbound
  ELSE [chatType |-> IF msg.topic \/ msg.groupId THEN "group" ELSE "direct"]

FreeHandler == CHOOSE h \in Handlers : hd[h].pc = "free" /\
                  \A g \in Handlers : g < h => hd[g].pc # "free"

\* passed[r] after the gate let a frame with id i through and the Map became s
Count(p, old, s, i) ==
  [j \in MsgIds |->
     IF j = i THEN (IF p[j] < 2 THEN p[j] + 1 ELSE 2)
     ELSE IF Has(old, j) /\ ~Has(s, j) THEN 0 ELSE p[j]]

\* The handler's outer try/catch (lines 436, 694-697): an exception thrown by a
\* step is logged and ends this frame's handler.
tryNoCatch(fx, threw) == IF threw THEN fx \cup {"unhandled"} ELSE fx

tryCatch(fx, threw) == IF threw THEN fx \cup {"error"} ELSE fx

\* bus.sendNoReply in its own try/catch (lines 462-467, 525-534): what was sent
sendLoudly(bs, what, sendThrows) ==
  IF ensureConnected(bs) /\ ~sendThrows THEN {what} ELSE {"error"}
sendQuietly(bs, what, sendThrows) ==
  IF ensureConnected(bs) /\ ~sendThrows THEN {what} ELSE {}

\* account.config.dmPolicy ?? "pairing"
dmPolicyOf(configured) == IF configured = "unset" THEN "pairing" ELSE configured

\* Client c delivers a frame; the bus that registered its onMessage emits it and
\* the driver's handler runs to its first await (lines 436-491).
Deliver(c, f) ==
  /\ msgCb[c] # NULL
  /\ LET r == msgCb[c]
         msg == parseNknPayload(f)
         g == checkAndMark(seen[r], msg.id, MaxSize)
         inbound == nknToInbound(msg)
     IN /\ r \in Runs /\ handlerOn[r]
        /\ \E h \in Handlers : hd[h].pc = "free"
        /\ IF msg = NoMsg
             THEN /\ lastFrame' = [id |-> NULL, end |-> "malformed", cls |-> FrameClass(f)]
                  /\ ev' = {}
                  /\ UNCHANGED <<seen, passed, hd>>
             ELSE IF g.already
               THEN /\ lastFrame' = [id |-> msg.id, end |-> "duplicate", cls |-> FrameClass(f)]
                    /\ ev' = {}
                    /\ UNCHANGED <<seen, passed, hd>>
               ELSE /\ seen' = [seen EXCEPT ![r] = g.seen]
                    /\ passed' = [passed EXCEPT ![r] = Count(passed[r], seen[r], g.seen, msg.id)]
                    /\ IF bus[r].address = NULL
                         THEN /\ lastFrame' = [id |-> msg.id, end |-> "noAddress", cls |-> FrameClass(f)]
                              /\ ev' = {}
                              /\ UNCHANGED hd
                         ELSE IF inbound = NoInbound
                           THEN /\ lastFrame' = [id |-> msg.id, end |-> "control", cls |-> FrameClass(f)]
                                /\ ev' = {}
                                /\ UNCHANGED hd
                           ELSE \E sendThrows \in BOOLEAN, hostThrows \in BOOLEAN :
                                  LET fx == sendQuietly(bus[r], "receipt", sendThrows)
                                  IN IF hostThrows
                                       THEN /\ lastFrame' = [id |-> msg.id, end |-> "error", cls |-> FrameClass(f)]
                                            /\ ev' = tryCatch(fx, TRUE)
                                            /\ UNCHANGED hd
                                       ELSE /\ lastFrame' = [id |-> msg.id, end |-> "entered", cls |-> FrameClass(f)]
                                            /\ ev' = fx
                                            /\ hd' = [hd EXCEPT ![FreeHandler] =
                                                        [pc |-> "auth", run |-> r, id |-> msg.id,
                                                         kind |-> inbound.chatType,
                                                         policy |-> dmPolicyOf(cfg[run[r].acct])]]
  /\ UNCHANGED <<tk, wire, cfg, busVars, run, busMap, seenMap, handlerOn>>

\* Lines 545-693 for a frame the DM policy let through: the group
\* control-command check, then routing and the reply dispatch.
routeThenReceipt(kind, blocked, throws) ==
  IF kind = "group" /\ blocked THEN [pc |-> "free", fx |-> {"dropCommand"}]
  ELSE [pc |-> "free", fx |-> tryCatch(IF throws THEN {} ELSE {"routed", "receipt"}, throws)]
route(kind, blocked, throws) ==
  IF kind = "group" /\ blocked THEN [pc |-> "free", fx |-> {"dropCommand"}]
  ELSE [pc |-> "free", fx |-> tryCatch(IF throws THEN {} ELSE {"routed"}, throws)]

\* Lines 506-518 once resolveSenderCommandAuthorization has settled: where
\* the handler goes next and what it did.  allowed: isSenderAllowed on the
\* configured list.
dmPolicyAllFrames(policy, kind, rejected, allowed, blocked, throws) ==
  IF rejected THEN [pc |-> "free", fx |-> tryCatch({}, TRUE)]
  ELSE IF policy = "disabled" THEN [pc |-> "free", fx |-> {"dropDisabled"}]
  ELSE IF policy = "open" THEN route(kind, blocked, throws)
  ELSE IF policy = "allowlist"
    THEN (IF allowed THEN route(kind, blocked, throws)
          ELSE [pc |-> "free", fx |-> {"dropNotAllowed"}])
  ELSE [pc |-> "store", fx |-> {}]

dmPolicyStep(policy, kind, rejected, allowed, blocked, throws) ==
  IF rejected THEN [pc |-> "free", fx |-> tryCatch({}, TRUE)]
  ELSE IF kind = "group" THEN route(kind, blocked, throws)
  ELSE IF policy = "disabled" THEN [pc |-> "free", fx |-> {"dropDisabled"}]
  ELSE IF policy = "open" THEN route(kind, blocked, throws)
  ELSE IF policy = "allowlist"
    THEN (IF allowed THEN route(kind, blocked, throws)
          ELSE [pc |-> "free", fx |-> {"dropNotAllowed"}])
  ELSE [pc |-> "store", fx |-> {}]                      \* await readAllowFromStore()

Resume(h, o) ==
  /\ hd' = [hd EXCEPT ![h] = IF o.pc = "free" THEN Hd0 ELSE [@ EXCEPT !.pc = o.pc]]
  /\ ev' = o.fx
  /\ lastFrame' = [id |-> NULL, end |-> "resumed", cls |-> "none"]
  /\ UNCHANGED <<tk, wire, cfg, busVars, run, busMap, seenMap, seen, handlerOn, passed>>

\* Handler h resumes after the await of line 491.
HandlerPolicy(h) ==
  /\ hd[h].pc = "auth"
  /\ \E rejected \in BOOLEAN, throws \in BOOLEAN,
        allowed \in (IF hd[h].policy = "allowlist" THEN BOOLEAN ELSE {FALSE}),
        blocked \in (IF hd[h].kind = "group" THEN BOOLEAN ELSE {FALSE}) :
       Resume(h, dmPolicyStep(hd[h].policy, hd[h].kind, rejected, allowed, blocked, throws))

\* Handler h, a direct frame under policy pairing, resumes after the await of
\* line 516 (a rejection reads as the empty list).  allowed: isSenderAllowed on
\* the configured list followed by the stored one.
HandlerStore(h) ==
  /\ hd[h].pc = "store"
  /\ \E allowed \in BOOLEAN, throws \in BOOLEAN :
       Resume(h, IF allowed THEN route(hd[h].kind, FALSE, throws)
                 ELSE IF throws THEN [pc |-> "free", fx |-> tryCatch({}, TRUE)]
                 ELSE [pc |-> "upsert", fx |-> {"upsert"}])

\* Handler h resumes after the await of line 520 and drops the frame; "created"
\* records that the upsert reported the request as newly created.
HandlerUpsertAlwaysReplies(h) ==
  /\ hd[h].pc = "upsert"
  /\ \E rejected \in BOOLEAN, created \in BOOLEAN, sendThrows \in BOOLEAN :
       Resume(h, [pc |-> "free",
                  fx |-> IF rejected THEN tryCatch({}, TRUE)
                         ELSE {"dropNotAllowed"} \cup (IF created THEN {"created"} ELSE {})
                              \cup sendQuietly(bus[hd[h].run], "pairingReply", sendThrows)])
HandlerUpsert(h) ==
  /\ hd[h].pc = "upsert"
  /\ \E rejected \in BOOLEAN, created \in BOOLEAN, sendThrows \in BOOLEAN :
       Resume(h, [pc |-> "free",
                  fx |-> IF rejected THEN tryCatch({}, TRUE)
                         ELSE {"dropNotAllowed"} \cup
                              (IF created
                                 THEN {"created"} \cup
                                      sendQuietly(bus[hd[h].run], "pairingReply", sendThrows)
                                 ELSE {})])

\* ------------------------------------------- a caller of one NknBus (SpecBus)
TheBus == 1

NextCall == CHOOSE k \in Conn : att[k].pc = "idle" /\ \A j \in Conn : j < k => att[j].pc # "idle"

\* connect(opts, signal) is called: with a client held it calls disconnect and
\* awaits it; otherwise it runs on to the await of its promise.
CallConnect(sigInit, ctorThrows, closeFails) ==
  /\ \E k \in 1..MaxCalls : att[k].pc = "idle"
  /\ LET k == NextCall
         a == [att[k] EXCEPT !.bus = TheBus]
     IN /\ sig' = [sig EXCEPT ![k] = sigInit]
        /\ IF bus[TheBus].client # NULL
             THEN LET d == disconnect(bus[TheBus], closeFails)
                  IN /\ bus' = [bus EXCEPT ![TheBus] = d.bus]
                     /\ closeCalled' = closeCalled \cup d.closes
                     /\ att' = [att EXCEPT ![k] = [a EXCEPT !.pc = "afterDisc"]]
             ELSE LET c == connectBegin(bus[TheBus], a, k, sigInit, ctorThrows)
                  IN /\ bus' = [bus EXCEPT ![TheBus] = c.bus]
                     /\ closeCalled' = closeCalled \cup c.closes
                     /\ att' = [att EXCEPT ![k] = c.att]
  /\ UNCHANGED <<msgCb, everConn, lastOp, drvVars>>

\* connect() resumes after `await this.disconnect()`.
AttemptAfterDisc(k, ctorThrows) ==
  /\ att[k].pc = "afterDisc"
  /\ LET b == att[k].bus
         c == connectBegin(bus[b], att[k], k, sig[k], ctorThrows)
     IN /\ bus' = [bus EXCEPT ![b] = c.bus]
        /\ closeCalled' = closeCalled \cup c.closes
        /\ att' = [att EXCEPT ![k] = c.att]
  /\ UNCHANGED <<sig, msgCb, everConn, lastOp, drvVars>>

\* disconnect() is called.
CallDisconnect(closeFails) ==
  /\ LET d == disconnect(bus[TheBus], closeFails)
     IN /\ bus' = [bus EXCEPT ![TheBus] = d.bus]
        /\ closeCalled' = closeCalled \cup d.closes
  /\ UNCHANGED <<att, sig, msgCb, everConn, lastOp, drvVars>>

BusOps == {"send", "sendNoReply", "sendToMultiple", "subscribe", "unsubscribe",
           "getSubscribers"}

\* One of the six relay operations is called: ensureConnected, then the call
\* on the client, which succeeds or fails; sendToMultiple returns early for an
\* empty list.  No statement of these methods assigns a field of the bus.
CallOpDropsClient(op, emptyDests) ==
  /\ \E rejects \in BOOLEAN :
       /\ lastOp' = [state |-> bus[TheBus].state,
                     result |-> IF ~ensureConnected(bus[TheBus]) THEN "notConnected"
                                ELSE IF op = "sendToMultiple" /\ emptyDests THEN "noop"
                                ELSE IF rejects THEN "rejected" ELSE "resolved"]
       /\ bus' = IF ensureConnected(bus[TheBus]) /\ rejects
                   THEN [bus EXCEPT ![TheBus] = Bus0] ELSE bus
  /\ UNCHANGED <<closeCalled, att, sig, msgCb, everConn, drvVars>>

CallOp(op, emptyDests) ==
  /\ \E rejects \in BOOLEAN :
       lastOp' = [state |-> bus[TheBus].state,
                  result |-> IF ~ensureConnected(bus[TheBus]) THEN "notConnected"
                             ELSE IF op = "sendToMultiple" /\ emptyDests THEN "noop"
                             ELSE IF rejects THEN "rejected" ELSE "resolved"]
  /\ UNCHANGED <<bus, closeCalled, att, sig, msgCb, everConn, drvVars>>

\* ------------------------------------------------------------ wire.ts
\* Strings of wire.ts are sequences of tokens.  The token ":" is the colon;
\* every other token is a run of characters without a colon, so a maximal run
\* of tokens other than ":" is what the pattern [^:]+ matches, and the literal
\* "dm" of a pattern matches the token "dm" only where a colon follows it.
\* The empty sequence is the empty string, and also undefined where the code
\* only tests for truthiness.
MaxName == 2
MaxAllow == 1

NoWire == [op |-> "none"]
None == << >>

SeqsUpTo(S, n) == UNION {[1..k -> S] : k \in 0..n}
NameTokens == {":", "dm", "topic", "group", "x"}
Names == SeqsUpTo(NameTokens, MaxName) \ {None}
AccountIds == {None, <<"default">>} \cup Names

\* --- sender normalisation and the allow-list (channel.ts)
SubClientPrefix == "__0__."
RawSenders ==
  {<<t>> : t \in {"a", "A", "b"}} \cup {<<SubClientPrefix, t>> : t \in {"a", "A", "b"}}
    \cup {<<SubClientPrefix, SubClientPrefix, "a">>}
AllowLists ==
  SeqsUpTo({<<"a">>, <<"A">>, <<"b">>, <<"*">>, <<SubClientPrefix, "a">>}, MaxAllow)

stripNknSubClientPrefix(addr) ==
  IF Len(addr) > 0 /\ addr[1] = SubClientPrefix THEN Tail(addr) ELSE addr

toLowerCaseToken(t) == IF t = "A" THEN "a" ELSE t
toLowerCase(str) == [i \in 1..Len(str) |-> toLowerCaseToken(str[i])]

isSenderAllowedExact(senderId, allowFrom) ==
  \E i \in 1..Len(allowFrom) : allowFrom[i] = senderId \/ allowFrom[i] = <<"*">>
isSenderAllowed(senderId, allowFrom) ==
  LET lower == toLowerCase(senderId)
  IN  \E i \in 1..Len(allowFrom) :
        toLowerCase(allowFrom[i]) = lower \/ allowFrom[i] = <<"*">>

\* The list the DM policy block consults: the stored list is read only under
\* a policy other than allowlist, and a failed read yields the empty list.
effectiveAllowFrom(dmPolicy, configAllowFrom, stored, readFails) ==
  LET storeAllowFrom == IF dmPolicy = "allowlist" THEN << >>
                        ELSE IF readFails THEN << >> ELSE stored
  IN  configAllowFrom \o storeAllowFrom

\* The admission decision of one direct frame under pairing or allowlist.
Admit ==
  /\ wire = NoWire
  /\ \E dmPolicy \in {"pairing", "allowlist"}, rawSrc \in RawSenders,
        configAllowFrom \in AllowLists, stored \in AllowLists, readFails \in BOOLEAN :
       wire' = [op |-> "admit", dmPolicy |-> dmPolicy, rawSrc |-> rawSrc,
                config |-> configAllowFrom, stored |-> stored, readFails |-> readFails,
                admitted |-> isSenderAllowed(stripNknSubClientPrefix(rawSrc),
                               effectiveAllowFrom(dmPolicy, configAllowFrom, stored, readFails))]
  /\ UNCHANGED <<busVars, run, busMap, seenMap, seen, handlerOn, hd, passed, lastFrame, tk, cfg, ev>>

\* --- session keys
TopicKey(topic) == <<"dchat", ":", "topic", ":">> \o topic
GroupKey(groupId) == <<"dchat", ":", "group", ":">> \o groupId
DmKey(src) == <<"dchat", ":", "dm", ":">> \o src
ScopedDmKey(acct, src) == <<"dchat", ":">> \o acct \o <<":", "dm", ":">> \o src

sessionKeyUnscoped(src, topic, groupId, acct) ==
  IF topic # None THEN TopicKey(topic)
  ELSE IF groupId # None THEN GroupKey(groupId)
  ELSE DmKey(src)
sessionKey(src, topic, groupId, acct) ==
  IF topic # None THEN TopicKey(topic)
  ELSE IF groupId # None THEN GroupKey(groupId)
  ELSE IF acct # None /\ acct # <<"default">> THEN ScopedDmKey(acct, src)
  ELSE DmKey(src)
chatTypeOf(topic, groupId) == IF topic # None \/ groupId # None THEN "group" ELSE "direct"

\* /^dchat:topic:(.+)$/ and /^dchat:group:(.+)$/
extractTopicFromSessionKey(k) ==
  IF Len(k) >= 5 /\ SubSeq(k, 1, 4) = <<"dchat", ":", "topic", ":">>
  THEN SubSeq(k, 5, Len(k)) ELSE None
extractGroupIdFromSessionKey(k) ==
  IF Len(k) >= 5 /\ SubSeq(k, 1, 4) = <<"dchat", ":", "group", ":">>
  THEN SubSeq(k, 5, Len(k)) ELSE None

\* /^dchat:(?:[^:]+:)?dm:(.+)$/ : the optional group is tried first; it takes
\* the whole run of tokens up to the next colon, and the match falls back to
\* the pattern without the group only when the match with it fails.
FirstColonFrom(k, i) ==
  IF \E j \in i..Len(k) : k[j] = ":"
  THEN CHOOSE j \in i..Len(k) : k[j] = ":" /\ \A h \in i..(j - 1) : k[h] # ":"
  ELSE 0
extractDmAddressFromSessionKey(k) ==
  IF Len(k) < 2 \/ SubSeq(k, 1, 2) # <<"dchat", ":">> THEN None
  ELSE LET j == FirstColonFrom(k, 3)
           withGroup == /\ j > 3
                        /\ Len(k) >= j + 3
                        /\ k[j + 1] = "dm"
                        /\ k[j + 2] = ":"
           without == Len(k) >= 5 /\ k[3] = "dm" /\ k[4] = ":"
       IN  IF withGroup THEN SubSeq(k, j + 3, Len(k))
           ELSE IF without THEN SubSeq(k, 5, Len(k))
           ELSE None

\* The inputs of nknToInbound that decide chat type and session key.
DecodeInputs ==
  {[src |-> s, topic |-> None, groupId |-> None, acct |-> a] : s \in Names, a \in AccountIds}
    \cup {[src |-> <<"x">>, topic |-> t, groupId |-> g, acct |-> a] :
            t \in Names, g \in {None, <<"x">>}, a \in {None, <<"x">>}}
    \cup {[src |-> <<"x">>, topic |-> None, groupId |-> g, acct |-> a] :
            g \in Names, a \in {None, <<"x">>}}

Decode ==
  /\ wire = NoWire
  /\ \E in \in DecodeInputs :
       wire' = [op |-> "decode", src |-> in.src, topic |-> in.topic, groupId |-> in.groupId,
                acct |-> in.acct, chatType |-> chatTypeOf(in.topic, in.groupId),
                sessionKey |-> sessionKey(in.src, in.topic, in.groupId, in.acct)]
  /\ UNCHANGED <<busVars, run, busMap, seenMap, seen, handlerOn, hd, passed, lastFrame, tk, cfg, ev>>

\* Keys written as the concatenations of the key shapes.
BuiltKeys ==
  {TopicKey(t) : t \in Names} \cup {GroupKey(g) : g \in Names}
    \cup {DmKey(s) : s \in Names}
    \cup {ScopedDmKey(a, s) : a \in AccountIds \ {None}, s \in Names}

Extract ==
  /\ wire = NoWire
  /\ \E k \in BuiltKeys :
       wire' = [op |-> "extract", key |-> k,
                topic |-> extractTopicFromSessionKey(k),
                groupId |-> extractGroupIdFromSessionKey(k),
                dm |-> extractDmAddressFromSessionKey(k)]
  /\ UNCHANGED <<busVars, run, busMap, seenMap, seen, handlerOn, hd, passed, lastFrame, tk, cfg, ev>>

\* --- the reply delivery callback (channel.ts)
\* deliver(payload) of a frame whose session key is k and whose sender is src,
\* on a connected bus whose address is selfAddress: the calls it makes on the
\* bus.  subscribers is what bus.getSubscribers returns for the topic.
deliver(replyText, k, src, subscribers, selfAddress) ==
  LET topic == extractTopicFromSessionKey(k)
      groupIdFromKey == extractGroupIdFromSessionKey(k)
      dests == subscribers \ {selfAddress}
  IN  IF replyText = None THEN {}
      ELSE IF topic # None
        THEN IF dests # {}
               THEN {[op |-> "sendToMultiple", dests |-> dests, topic |-> topic]}
               ELSE {}
      ELSE IF groupIdFromKey # None
        THEN {[op |-> "sendNoReply", dests |-> {groupIdFromKey}, topic |-> None]}
      ELSE {[op |-> "sendNoReply", dests |-> {src}, topic |-> None]}

\* A frame from sender "x" is decoded and the reply callback made for it is
\* called with a text, empty or not.
Reply ==
  /\ wire = NoWire
  /\ \E in \in {d \in DecodeInputs : d.src = <<"x">>}, replyText \in {None, <<"x">>},
        subscribers \in SUBSET {<<"me">>, <<"x">>} :
       wire' = [op |-> "reply", src |-> in.src, topic |-> in.topic, groupId |-> in.groupId,
                acct |-> in.acct, text |-> replyText, subscribers |-> subscribers,
                self |-> <<"me">>,
                sends |-> deliver(replyText, sessionKey(in.src, in.topic, in.groupId, in.acct),
                                  in.src, subscribers, <<"me">>)]
  /\ UNCHANGED <<busVars, run, busMap, seenMap, seen, handlerOn, hd, passed, lastFrame, tk, cfg, ev>>

\* --- outbound.sendText (channel.ts)
\* sendText({to, text}) on a connected bus: the calls it makes on the bus.
\* to.startsWith("topic:") / ("group:") and the slice behind it; an empty
\* slice is falsy and falls through to the next branch.
sendText(to, subscribers, selfAddress) ==
  LET topicName == IF Len(to) >= 2 /\ SubSeq(to, 1, 2) = <<"topic", ":">>
                     THEN SubSeq(to, 3, Len(to)) ELSE None
      groupId == IF Len(to) >= 2 /\ SubSeq(to, 1, 2) = <<"group", ":">>
                   THEN SubSeq(to, 3, Len(to)) ELSE None
      dests == subscribers \ {selfAddress}
      dest == IF Len(to) >= 2 /\ SubSeq(to, 1, 2) = <<"dchat", ":">>
                THEN SubSeq(to, 3, Len(to)) ELSE to
  IN  IF topicName # None
        THEN IF dests # {}
               THEN {[op |-> "sendToMultiple", dests |-> dests, topic |-> topicName]}
               ELSE {}
      ELSE IF groupId # None
        THEN {[op |-> "sendNoReply", dests |-> {groupId}, topic |-> None]}
      ELSE {[op |-> "send", dests |-> {dest}, topic |-> None]}

SendText ==
  /\ wire = NoWire
  /\ \E to \in Names \cup {<<"dchat", ":", "x">>}, subscribers \in SUBSET {<<"me">>, <<"x">>} :
       wire' = [op |-> "sendText", to |-> to, subscribers |-> subscribers,
                sends |-> sendText(to, subscribers, <<"me">>)]
  /\ UNCHANGED <<busVars, run, busMap, seenMap, seen, handlerOn, hd, passed, lastFrame, tk, cfg, ev>>

\* --- the body of a displayable envelope
DISPLAYABLE_CONTENT_TYPES == {"text", "textExtension", "image", "audio", "video", "file", "ipfs"}
Absent == <<"undefined">>                  \* a member the envelope does not have
\* options.fileType: absent, null, the numbers 0..3 and the strings "0".."3"
FileTypes == {"undefined", "null", "n0", "n1", "n2", "n3", "s0", "s1", "s2", "s3"}

bodyOfNoDefault(ct, content, fileType, fileName) ==
  IF ct \in {"text", "textExtension"} THEN (IF content = Absent THEN << >> ELSE content)
  ELSE IF ct = "ipfs"
    THEN (IF fileType \in {"n1", "s1"} THEN <<"[Image]">>
          ELSE IF fileType \in {"n2", "s2"} THEN <<"[Audio]">>
          ELSE IF fileType \in {"n0", "s0"}
            THEN (IF fileName # Absent /\ fileName # << >>
                    THEN <<"[File: ">> \o fileName \o <<"]">> ELSE <<"[File]">>)
          ELSE <<"[IPFS content]">>)
  ELSE IF ct = "audio" THEN <<"[Voice Message]">>
  ELSE IF ct = "image" THEN <<"[Image]">>
  ELSE IF ct = "video" THEN <<"[Video]">>
  ELSE IF ct = "file" THEN <<"[File]">>
  ELSE (IF content = Absent THEN << >> ELSE content)
bodyOf(ct, content, fileType, fileName) ==
  IF ct \in {"text", "textExtension"} THEN (IF content = Absent THEN << >> ELSE content)
  ELSE IF ct = "ipfs"
    THEN (IF fileType \in {"n1", "s1", "undefined"} THEN <<"[Image]">>
          ELSE IF fileType \in {"n2", "s2"} THEN <<"[Audio]">>
          ELSE IF fileType \in {"n0", "s0"}
            THEN (IF fileName # Absent /\ fileName # << >>
                    THEN <<"[File: ">> \o fileName \o <<"]">> ELSE <<"[File]">>)
          ELSE <<"[IPFS content]">>)
  ELSE IF ct = "audio" THEN <<"[Voice Message]">>
  ELSE IF ct = "image" THEN <<"[Image]">>
  ELSE IF ct = "video" THEN <<"[Video]">>
  ELSE IF ct = "file" THEN <<"[File]">>
  ELSE (IF content = Absent THEN << >> ELSE content)

Body ==
  /\ wire = NoWire
  /\ \E ct \in DISPLAYABLE_CONTENT_TYPES, content \in {Absent} \cup SeqsUpTo({"x"}, MaxName),
        fileType \in FileTypes, fileName \in {Absent, << >>, <<"x">>} :
       wire' = [op |-> "body", ct |-> ct, content |-> content, fileType |-> fileType,
                fileName |-> fileName, body |-> bodyOf(ct, content, fileType, fileName)]
  /\ UNCHANGED <<busVars, run, busMap, seenMap, seen, handlerOn, hd, passed, lastFrame, tk, cfg, ev>>

\* --- JSON text and the outbound envelope
\* JSON text is a sequence of tokens too: the braces, the comma, the colon, the
\* quote "\"" and the backslash "\\" are tokens of their own.  An object is a
\* sequence of members [k, v, str]: v the value, str whether it is a string.
escapeTokenNone(t) == <<t>>
escapeToken(t) ==
  IF t = "\"" THEN <<"\\", "\"">> ELSE IF t = "\\" THEN <<"\\", "\\">> ELSE <<t>>

RECURSIVE escape(_)
escape(str) == IF str = << >> THEN << >> ELSE escapeToken(Head(str)) \o escape(Tail(str))
stringifyString(str) == <<"\"">> \o escape(str) \o <<"\"">>

RECURSIVE stringifyMembers(_)
stringifyMembers(ms) ==
  IF ms = << >> THEN << >>
  ELSE stringifyString(<<Head(ms).k>>) \o <<":">>
         \o (IF Head(ms).str THEN stringifyString(Head(ms).v) ELSE Head(ms).v)
         \o (IF Tail(ms) = << >> THEN << >> ELSE <<",">> \o stringifyMembers(Tail(ms)))
JSONstringify(ms) == <<"{">> \o stringifyMembers(ms) \o <<"}">>

ParseFail == [ok |-> FALSE, v |-> << >>, next |-> 0]

\* The characters of a string literal from raw[i] to its closing quote.
RECURSIVE readString(_, _, _)
readString(raw, i, acc) ==
  IF i > Len(raw) THEN ParseFail
  ELSE IF raw[i] = "\"" THEN [ok |-> TRUE, v |-> acc, next |-> i + 1]
  ELSE IF raw[i] = "\\"
    THEN (IF i + 1 <= Len(raw) /\ raw[i + 1] \in {"\"", "\\"}
            THEN readString(raw, i + 2, Append(acc, raw[i + 1]))
            ELSE ParseFail)
  ELSE readString(raw, i + 1, Append(acc, raw[i]))

\* A value at raw[i]: a string literal, or a number (one token).
readValue(raw, i) ==
  IF i > Len(raw) \/ raw[i] \in {"{", "}", ",", ":", "\\"} THEN ParseFail
  ELSE IF raw[i] = "\"" THEN readString(raw, i + 1, << >>)
  ELSE [ok |-> TRUE, v |-> <<raw[i]>>, next |-> i + 1]

\* The members of an object from raw[i] to the closing brace, which must end raw.
RECURSIVE readMembers(_, _, _)
readMembers(raw, i, ms) ==
  IF i > Len(raw) \/ raw[i] # "\"" THEN ParseFail
  ELSE LET key == readString(raw, i + 1, << >>)
           val == readValue(raw, key.next + 1)
       IN  IF ~key.ok \/ key.next > Len(raw) \/ raw[key.next] # ":" THEN ParseFail
           ELSE IF ~val.ok \/ val.next > Len(raw) THEN ParseFail
           ELSE IF raw[val.next] = "}"
             THEN (IF val.next = Len(raw)
                     THEN [ok |-> TRUE, v |-> Append(ms, [k |-> key.v, v |-> val.v]), next |-> 0]
                     ELSE ParseFail)
           ELSE IF raw[val.next] = ","
             THEN readMembers(raw, val.next + 1, Append(ms, [k |-> key.v, v |-> val.v]))
           ELSE ParseFail
JSONparse(raw) ==
  IF Len(raw) < 2 \/ raw[1] # "{" THEN ParseFail
  ELSE IF raw = <<"{", "}">> THEN [ok |-> TRUE, v |-> << >>, next |-> 0]
  ELSE readMembers(raw, 2, << >>)

\* parsed[k]: the value of the last member named k, or undefined.
Member(ms, k) ==
  IF \E i \in 1..Len(ms) : ms[i].k = <<k>>
  THEN ms[CHOOSE i \in 1..Len(ms) : ms[i].k = <<k>> /\ \A j \in (i + 1)..Len(ms) : ms[j].k # <<k>>].v
  ELSE Absent
Truthy(v) == v \notin {Absent, << >>}

textToNkn(text, topic, groupId) ==
  <<[k |-> "id", v |-> <<"uuid">>, str |-> TRUE],
    [k |-> "contentType", v |-> <<"text">>, str |-> TRUE],
    [k |-> "content", v |-> text, str |-> TRUE]>>
    \o (IF topic # None THEN <<[k |-> "topic", v |-> topic, str |-> TRUE]>> ELSE << >>)
    \o (IF groupId # None THEN <<[k |-> "groupId", v |-> groupId, str |-> TRUE]>> ELSE << >>)
    \o <<[k |-> "timestamp", v |-> <<"1700">>, str |-> FALSE]>>

\* nknToInbound(addr, parseNknPayload(JSON.stringify(textToNkn(text, opts))), self)
RoundTrip ==
  /\ wire = NoWire
  /\ \E text \in SeqsUpTo({"x", "\"", "\\", ",", "}", ":"}, MaxName),
        topic \in {None, <<"t">>, <<"\"">>}, groupId \in {None, <<"g">>}, addr \in {<<"x">>} :
       LET raw == JSONstringify(textToNkn(text, topic, groupId))
           parsed == JSONparse(raw)
           msg == parsed.v
           isNull == \/ ~parsed.ok
                     \/ ~Truthy(Member(msg, "id")) \/ ~Truthy(Member(msg, "contentType"))
                     \/ Len(Member(msg, "contentType")) # 1
                     \/ Member(msg, "contentType")[1] \notin DISPLAYABLE_CONTENT_TYPES
           topicIn == IF Truthy(Member(msg, "topic")) THEN Member(msg, "topic") ELSE None
           groupIn == IF Truthy(Member(msg, "groupId")) THEN Member(msg, "groupId") ELSE None
       IN  wire' = [op |-> "roundTrip", text |-> text, topic |-> topic, groupId |-> groupId,
                    addr |-> addr, raw |-> raw, isNull |-> isNull,
                    body |-> IF isNull THEN Absent
                             ELSE bodyOf(Member(msg, "contentType")[1], Member(msg, "content"),
                                         "undefined", Absent),
                    chatType |-> IF isNull THEN "none" ELSE chatTypeOf(topicIn, groupIn),
                    sessionKey |-> IF isNull THEN None
                                   ELSE sessionKey(addr, topicIn, groupIn, None)]
  /\ UNCHANGED <<busVars, run, busMap, seenMap, seen, handlerOn, hd, passed, lastFrame, tk, cfg, ev>>

\* ------------------------------------------------------------ Spec

InitProgram ==
  /\ bus = [b \in Conn |-> Bus0]
  /\ closeCalled = {}
  /\ att = [k \in Conn |-> Att0]
  /\ sig = [k \in Conn |-> "none"]
  /\ msgCb = [c \in Conn |-> NULL]
  /\ everConn = [b \in Conn |-> FALSE]
  /\ lastOp = [state |-> "disconnected", result |-> "none"]
  /\ run = [r \in Runs |-> Run0]
  /\ busMap = [a \in Accounts |-> NULL]
  /\ seenMap = [a \in Accounts |-> NULL]
  /\ seen = [r \in Runs |-> <<>>]
  /\ handlerOn = [r \in Runs |-> FALSE]
  /\ hd = [h \in Handlers |-> Hd0]
  /\ passed = [r \in Runs |-> [i \in MsgIds |-> 0]]
  /\ lastFrame = [id |-> NULL, end |-> "none", cls |-> "none"]
  /\ ev = {}
  /\ wire = NoWire

\* dmPolicy defaults to "pairing" (account.config.dmPolicy ?? "pairing").
Init == InitProgram /\ tk = Tk0(MaxSize) /\ cfg = [a \in Accounts |-> "pairing"]

\* The accounts run r may be started for: account ids are interchangeable, so
\* the first run is for "default".
AccountsOf(r) == IF r = 1 THEN {"default"} ELSE Accounts

\* The plugin's connection lifecycle as the host drives it.
Next ==
  \/ \E r \in Runs : \E a \in AccountsOf(r), hasSeed \in BOOLEAN,
        sigInit \in {"none", "live", "prefired"}, ctorThrows \in BOOLEAN :
       StartAccount(r, a, hasSeed, sigInit, ctorThrows)
  \/ \E r \in Runs : Timeout(r)
  \/ \E r \in Runs : RelayConnected(r)
  \/ \E r \in Runs : AttemptResume(r)
  \/ \E r \in Runs : AbortFire(r)
  \/ \E r \in Runs, hostThrows \in BOOLEAN, closeFails \in BOOLEAN :
       RunAfterConnect(r, hostThrows, closeFails)
  \/ \E r \in Runs, closeFails \in BOOLEAN : RunWoken(r, closeFails)
  \/ \E r \in Runs : RunFinally(r)

Spec == Init /\ [][Next]_vars

\* One account's run and the frames its relay client delivers.  A frame reaches
\* the handler only after a successful connect, so the run's connect succeeds here.
NextInbound ==
  \/ \E a \in AccountsOf(1) : StartAccount(1, a, TRUE, "live", FALSE)
  \/ RelayConnected(1)
  \/ AttemptResume(1)
  \/ AbortFire(1)
  \/ \E closeFails \in BOOLEAN : RunAfterConnect(1, FALSE, closeFails)
  \/ \E closeFails \in BOOLEAN : RunWoken(1, closeFails)
  \/ RunFinally(1)
  \/ \E f \in Frames : Deliver(1, f)
  \/ \E h \in Handlers : HandlerPolicy(h)

\* The dedup gate comes before every policy check: dmPolicy is "open" here.
InitInbound == InitProgram /\ tk = Tk0(MaxSize) /\ cfg = [a \in Accounts |-> "open"]

SpecInbound == InitInbound /\ [][NextInbound]_vars

\* A run that connects and stays connected, under every configured dmPolicy
\* and every kind of frame.
Policies == {"pairing", "allowlist", "open", "disabled"}

NextPipeline ==
  \/ \E a \in AccountsOf(1) : StartAccount(1, a, TRUE, "live", FALSE)
  \/ RelayConnected(1)
  \/ AttemptResume(1)
  \/ RunAfterConnect(1, FALSE, FALSE)
  \/ \E f \in PipelineFrames : Deliver(1, f)
  \/ \E h \in Handlers : HandlerPolicy(h)
  \/ \E h \in Handlers : HandlerStore(h)
  \/ \E h \in Handlers : HandlerUpsert(h)

InitPipeline ==
  /\ InitProgram /\ tk = Tk0(MaxSize)
  /\ \E p \in Policies \cup {"unset"} : cfg = [a \in Accounts |-> p]

SpecPipeline == InitPipeline /\ [][NextPipeline]_vars

\* Two accounts side by side, each started once: run 1 is account "default",
\* run 2 account "work".  Either connect may fail or time out, either run may
\* be stopped, and either relay client delivers frames that carry the same id.
AccountOf(r) == IF r = 1 THEN "default" ELSE "work"

NextAccounts ==
  \/ \E r \in 1..2, ctorThrows \in BOOLEAN : StartAccount(r, AccountOf(r), TRUE, "live", ctorThrows)
  \/ \E r \in 1..2 : Timeout(r)
  \/ \E r \in 1..2 : RelayConnected(r)
  \/ \E r \in 1..2 : AttemptResume(r)
  \/ \E r \in 1..2 : AbortFire(r)
  \/ \E r \in 1..2, closeFails \in BOOLEAN : RunAfterConnect(r, FALSE, closeFails)
  \/ \E r \in 1..2, closeFails \in BOOLEAN : RunWoken(r, closeFails)
  \/ \E r \in 1..2 : RunFinally(r)
  \/ \E c \in 1..2, f \in {g \in FramesOver({1}) : g.sub = NULL} : Deliver(c, f)
  \/ \E h \in Handlers : HandlerPolicy(h)

SpecAccounts == InitInbound /\ [][NextAccounts]_vars

\* One account's run from start to teardown under policy pairing, with every
\* kind of frame delivered before, during and after the teardown.
NextStop ==
  \/ StartAccount(1, "default", TRUE, "live", FALSE)
  \/ RelayConnected(1)
  \/ AttemptResume(1)
  \/ AbortFire(1)
  \/ \E closeFails \in BOOLEAN : RunAfterConnect(1, FALSE, closeFails)
  \/ \E closeFails \in BOOLEAN : RunWoken(1, closeFails)
  \/ RunFinally(1)
  \/ \E f \in PipelineFrames : Deliver(1, f)
  \/ \E h \in Handlers : HandlerPolicy(h)
  \/ \E h \in Handlers : HandlerStore(h)
  \/ \E h \in Handlers : HandlerUpsert(h)

SpecStop == Init /\ [][NextStop]_vars

\* One NknBus under any caller of its public methods.
NextBus ==
  \/ \E sigInit \in {"none", "live", "prefired"}, ctorThrows \in BOOLEAN, closeFails \in BOOLEAN :
       CallConnect(sigInit, ctorThrows, closeFails)
  \/ \E k \in Conn, ctorThrows \in BOOLEAN : AttemptAfterDisc(k, ctorThrows)
  \/ \E k \in Conn : Timeout(k)
  \/ \E k \in Conn : RelayConnected(k)
  \/ \E k \in Conn : AttemptResume(k)
  \/ \E k \in Conn : AbortFire(k)
  \/ \E closeFails \in BOOLEAN : CallDisconnect(closeFails)
  \/ \E op \in BusOps, emptyDests \in BOOLEAN : CallOp(op, emptyDests)

SpecBus == Init /\ [][NextBus]_vars

\* One SeenTracker of a capacity of zero or more under any caller.
NextTracker ==
  \/ \E id \in TrackerIds : TrackerHasSeen(id)
  \/ \E id \in TrackerIds : TrackerMarkSeen(id)
  \/ \E id \in TrackerIds : TrackerCheckAndMark(id)
  \/ TrackerClear

InitTracker ==
  InitProgram /\ cfg = [a \in Accounts |-> "pairing"] /\ \E c \in TrackerCaps : tk = Tk0(c)

SpecTracker == InitTracker /\ [][NextTracker]_vars

\* The same for every capacity the constructor accepts.
InitAnyCap ==
  InitProgram /\ cfg = [a \in Accounts |-> "pairing"] /\ \E c \in AnyCaps : tk = Tk0(c)

SpecTrackerAnyCap == InitAnyCap /\ [][NextTracker]_vars

\* Spec with the scheduling JavaScript guarantees: a continuation whose promise
\* has settled runs, and an armed timer fires.  The relay's connected
\* notification and the host's calls are not fair.
Fairness ==
  \A r \in Runs :
    /\ WF_vars(Timeout(r))
    /\ WF_vars(AttemptResume(r))
    /\ WF_vars(\E hostThrows \in BOOLEAN, closeFails \in BOOLEAN :
                  RunAfterConnect(r, hostThrows, closeFails))
    /\ WF_vars(\E closeFails \in BOOLEAN : RunWoken(r, closeFails))
    /\ WF_vars(RunFinally(r))

FairSpec == Spec /\ Fairness

\* The functions of wire.ts and the allow-list test, applied to bounded inputs:
\* a behaviour is one call, and wire holds its arguments and its result.
NextWire == Admit \/ Decode \/ Extract \/ Body \/ RoundTrip \/ Reply \/ SendText
SpecWire == Init /\ [][NextWire]_vars

\* ------------------------------------------------------------ properties
\* C1 (SpecInbound): on one account, between the insertion of a message id
\* into the dedup cache and its eviction exactly one frame with that id has
\* passed the gate, however the handlers in flight interleave; an id not in
\* the cache has let none through since it left.
DedupGateOncePerId ==
  \A r \in Runs : \A i \in MsgIds :
    /\ passed[r][i] <= 1
    /\ Has(seen[r], i) => passed[r][i] = 1
    /\ ~Has(seen[r], i) => passed[r][i] = 0

\* A frame stopped at the gate while the handler of the frame that passed
\* with the same id is still in flight.
DuplicateStoppedWhileFirstInFlight ==
  \E h \in Handlers :
    /\ hd[h].pc = "auth"
    /\ lastFrame.id = hd[h].id /\ lastFrame.end = "duplicate"

StateEdges == {<<"disconnected", "connecting">>, <<"connecting", "connected">>,
               <<"connected", "disconnected">>, <<"connecting", "disconnected">>}

\* C2 (Spec): the connection state changes only along disconnected ->
\* connecting -> connected -> disconnected; the step in which a connect call
\* fails leaves the state disconnected, and the bus of a failed call has never
\* been connected.
StateMachineEdges ==
  [][\A b \in Runs :
       /\ bus'[b].state # bus[b].state =>
             <<bus[b].state, bus'[b].state>> \in StateEdges
       /\ (att[b].pc = "pending" /\ att'[b].pc = "done" /\ att'[b].outcome # "ok") =>
             bus[b].state = "connecting" /\ bus'[b].state = "disconnected"
       /\ (att'[b].pc = "done" /\ att'[b].outcome # "ok") => ~everConn'[b]]_vars

\* A connect call that timed out, its bus back in disconnected.
TimedOutBackToDisconnected ==
  \E b \in Runs : /\ att[b].pc = "done" /\ att[b].outcome = "timeout"
                  /\ bus[b].state = "disconnected" /\ ~everConn[b]

\* Call k has not returned yet.
InFlight(k) == att[k].pc \in {"afterDisc", "pending"}

\* Client k was constructed and close() was never called on it.
Live(k) == Created(att[k]) /\ k \notin closeCalled

\* C3 (SpecBus): one bus never has two connect calls in flight nor two
\* unclosed relay clients at the same time.
OneAttemptOneClient ==
  \A j \in Conn : \A k \in Conn :
    j # k => ~(InFlight(j) /\ InFlight(k)) /\ ~(Live(j) /\ Live(k))

\* C4 (Spec): a connect call that got as far as its promise ends as success,
\* timeout or abort, the one of the three that fired first; timeout and abort
\* are different errors, and after either the state is disconnected, no
\* client is held and the client the call built has been closed.
ExactlyOneOutcome ==
  \A k \in Runs :
    (att[k].pc = "done" /\ att[k].outcome # "ctorError") =>
      /\ att[k].outcome \in {"ok", "timeout", "aborted"}
      /\ att[k].outcome = (IF att[k].first = "resolved" THEN "ok" ELSE att[k].first)
      /\ att[k].outcome # "ok" =>
            /\ bus[k].state = "disconnected"
            /\ bus[k].client = NULL
            /\ k \in closeCalled

\* The timer fired first and the signal fired afterwards: the call ended as a
\* timeout and its client was closed.
TimeoutBeatsAbort ==
  \E k \in Runs : /\ att[k].pc = "done" /\ att[k].outcome = "timeout"
                  /\ sig[k] = "fired" /\ k \in closeCalled

\* C5 (Spec): connect called with a signal that has already fired builds no
\* relay client and leaves the state disconnected.
PrefiredCreatesNoClient ==
  \A k \in Runs :
    (sig[k] = "prefired" /\ att[k].pc # "idle") =>
      ~Created(att[k]) /\ bus[k].state = "disconnected"

\* C6 (Spec): when a run that created a bus has ended, its bus is
\* disconnected and holds no client, and neither registry holds the run's
\* bus or tracker.
EndedRunCleanedUp ==
  \A r \in Runs :
    (run[r].pc = "done" /\ run[r].hasBus) =>
      /\ bus[r].state = "disconnected" /\ bus[r].client = NULL
      /\ \A a \in Accounts : busMap[a] # r /\ seenMap[a] # r

\* A run that was connected and ended by cancellation.
CancelledRunEnded ==
  \E r \in Runs : run[r].pc = "done" /\ everConn[r] /\ sig[r] = "fired" /\ handlerOn[r]

\* C7 (FairSpec): once the signal of a started run has fired, the run
\* eventually finishes.
AbortLeadsToDone ==
  \A r \in Runs :
    (sig[r] = "fired" /\ run[r].pc \notin {"idle", "done"}) ~> (run[r].pc = "done")

\* C8 (FairSpec): after a connect call failed, the bus eventually is in
\* connecting again.
FailureLeadsToReconnect ==
  \A r \in Runs :
    (att[r].pc = "done" /\ att[r].outcome # "ok") ~> (bus[r].state = "connecting")

\* C9 (SpecBus): each of the six relay operations, called in a state other
\* than connected, fails as not connected and issues nothing to the client.
NotConnectedFailsFast ==
  (lastOp.result # "none" /\ lastOp.state # "connected") => lastOp.result = "notConnected"

\* An operation refused while a connect call was pending.
OpRefusedWhileConnecting ==
  lastOp.state = "connecting" /\ lastOp.result = "notConnected"

\* The step of run r that calls disconnect.
CallsDisconnect(r) ==
  run[r].pc \in {"connecting", "woken"} /\ run'[r].pc \in {"finally", "crashed"}

\* C10 (Spec): disconnect never throws, also when close() fails; when it
\* returns the state is disconnected, no client is held and no address is
\* recorded; on a disconnected bus it changes nothing.
DisconnectNeverThrows ==
  [][\A r \in Runs :
       CallsDisconnect(r) =>
         /\ run'[r].pc = "finally"
         /\ bus'[r] = [client |-> NULL, state |-> "disconnected", address |-> NULL]
         /\ bus[r].state = "disconnected" => bus'[r] = bus[r]]_vars

\* disconnect has returned although close() failed on the client it held.
DisconnectedDespiteCloseFailure ==
  \E r \in Runs : /\ run[r].pc = "finally" /\ run[r].closeFailed
                  /\ bus[r].state = "disconnected" /\ bus[r].client = NULL
                  /\ bus[r].address = NULL

\* The ids held by Map m.
Held(m) == {x \in TrackerIds : Has(m, x)}

\* The step is a call of markSeen or checkAndMark with id i that returns.
Marks(i) ==
  /\ tk' # tk /\ tk'.pc = "idle"
  /\ tk'.last.op \in {"markSeen", "checkAndMark"} /\ tk'.last.id = i

\* C11 (SpecTracker): checkAndMark(id) returns false exactly when the id is
\* absent at the call; that call inserts it (unless the capacity is 0), so
\* every later call returns true until the id is evicted or cleared, and a
\* call that returns true leaves the id in the cache.
CheckAndMarkOncePerEpoch ==
  [][\A i \in TrackerIds :
       (Marks(i) /\ tk'.last.op = "checkAndMark") =>
         /\ tk'.last.ret = Has(tk.map, i)
         /\ (~tk'.last.ret /\ tk.maxSize >= 1) => Has(tk'.map, i)
         /\ tk'.last.ret => Has(tk'.map, i)]_vars

\* checkAndMark found its id present in a cache that has already evicted.
SecondCallReturnsTrue ==
  /\ tk.last.op = "checkAndMark" /\ tk.last.ret /\ Has(tk.map, tk.last.id)
  /\ Len(tk.map) = tk.maxSize /\ tk.map[1] # 1

\* C12 (SpecTracker): hasSeen(id) reports whether the id is held and changes
\* neither contents nor order; an id becomes held only by markSeen(id) or
\* checkAndMark(id), which leave it held (capacity 0 aside), and stops being
\* held only by clear or by an eviction at capacity.
HasSeenTracksMarks ==
  [][/\ (tk' # tk /\ tk'.last.op = "hasSeen") =>
           /\ tk'.last.ret = Has(tk.map, tk'.last.id)
           /\ tk'.map = tk.map /\ tk'.order = tk.order
     /\ \A i \in TrackerIds :
           /\ (~Has(tk.map, i) /\ Has(tk'.map, i)) => Marks(i)
           /\ (Marks(i) /\ tk.maxSize >= 1) => Has(tk'.map, i)
           /\ (Has(tk.map, i) /\ ~Has(tk'.map, i)) =>
                 \/ tk'.last.op = "clear"
                 \/ /\ \E j \in TrackerIds : j # i /\ Marks(j) /\ ~Has(tk.map, j)
                    /\ Len(tk.map) >= tk.maxSize]_vars

\* hasSeen answered false for an id while the cache was full of other ids.
HasSeenFalseOnFullCache ==
  /\ tk.last.op = "hasSeen" /\ ~tk.last.ret
  /\ Len(tk.map) = tk.maxSize /\ tk.maxSize >= 2

\* The ids of sequence q.
Range(q) == {q[n] : n \in 1..Len(q)}

\* C13 (SpecTracker): inserting a new id into a cache that holds maxSize ids
\* evicts exactly one entry, the least recently touched one, where markSeen
\* on a held id counts as a touch, and keeps all the others.
EvictsLeastRecentlyTouched ==
  [][\A i \in TrackerIds :
       (Marks(i) /\ ~Has(tk.map, i) /\ Len(tk.map) = tk.maxSize) =>
         /\ Held(tk'.map) = Range(Tail(Append(tk.order, i)))
         /\ Len(tk'.map) = tk.maxSize
         /\ tk'.last.evicted = 1]_vars

\* capacity 3: a, b, c, a, d leaves a, c, d
RemarkedIdSurvives ==
  /\ tk.maxSize = MaxSize + 1 /\ Len(tk.map) = tk.maxSize
  /\ tk.last.op = "markSeen" /\ tk.last.evicted = 1
  /\ tk.map[Len(tk.map) - 1] = 1 /\ ~Has(tk.map, 2)

\* C14 (SpecTracker): the size never exceeds maxSize and is the number of
\* distinct ids held; after clear the size is 0 and no id is held.
SizeWithinCapacity ==
  /\ Len(tk.map) <= tk.maxSize
  /\ Len(tk.map) = Cardinality(Held(tk.map))
  /\ tk.last.op = "clear" => Len(tk.map) = 0 /\ Held(tk.map) = {}

\* A full cache after a checkAndMark that had to evict.
FullAfterEviction ==
  /\ tk.last.op = "checkAndMark" /\ ~tk.last.ret /\ tk.last.evicted = 1
  /\ Len(tk.map) = tk.maxSize /\ tk.maxSize >= 1

\* C15 (SpecTrackerAnyCap): every call of hasSeen, markSeen, checkAndMark and
\* clear returns, whatever capacity the tracker was constructed with.
TrackerCallsReturn == tk.pc = "idle"

\* C16 (SpecTracker): after checkAndMark(id) returned true, as after
\* markSeen(id) on a held id, the id is the most recent entry.
RemarkRefreshesRecency ==
  ((tk.last.op = "markSeen" \/ (tk.last.op = "checkAndMark" /\ tk.last.ret))
     /\ Has(tk.map, tk.last.id)) =>
    tk.map[Len(tk.map)] = tk.last.id

\* A step of the inbound pipeline (a frame arrives, or a handler resumes after
\* an await): these steps, and no others, change the cache, the handlers in
\* flight and the record of what the pipeline did last.
PipelineStep == <<seen, passed, hd, lastFrame, ev>>' # <<seen, passed, hd, lastFrame, ev>>

\* Handler h resumed after an await: only its own step changes the entry of
\* a handler in flight.
Resumed(h) == hd[h].pc # "free" /\ hd'[h] # hd[h]

\* C17 (SpecPipeline): a frame whose payload the parser rejects raises no
\* error and is dropped with no effect: the dedup cache is as before, no
\* receipt or other message is sent, no handler goes on to policy or routing,
\* and the bus and the run are untouched.
MalformedFrameHasNoEffect ==
  [][(PipelineStep /\ lastFrame'.cls = "rejected") =>
         /\ lastFrame'.end = "malformed"
         /\ ev' = {}
         /\ UNCHANGED <<seen, passed, hd, busVars, run, busMap, seenMap>>]_vars

\* A rejected frame was dropped while the cache held an id and a handler was
\* in flight.
MalformedFrameDropped ==
  /\ lastFrame.end = "malformed"
  /\ seen[1] # <<>>
  /\ \E h \in Handlers : hd[h].pc = "auth"

\* C18 (SpecPipeline): an envelope whose content type is a control type, or
\* is not a displayable type, decodes to null and goes no further: its Deliver
\* step starts no handler (so no DM policy, no pairing request, no routing
\* for it) and sends nothing, whatever its addressing and the dmPolicy.
ControlFrameNeverSurfaces ==
  [][(PipelineStep /\ lastFrame'.cls = "skipped") =>
         /\ lastFrame'.end \in {"duplicate", "noAddress", "control"}
         /\ hd' = hd
         /\ ev' = {}]_vars

\* A control or non-displayable envelope passed the gate and was skipped,
\* under a policy that would have asked a direct sender to pair.
ControlFrameSkipped ==
  /\ lastFrame.end = "control"
  /\ cfg["default"] = "pairing"
  /\ seen[1] # <<>>

\* C19 (SpecPipeline): an exception raised at a step of one frame's pipeline
\* is contained to that frame: it does not leave the handler, and the step
\* changes neither the bus, the run, the registry nor the handler
\* registration; it ends at most the handler of that frame, so the other
\* handlers and the frames arriving afterwards are served as before.
ExceptionContained ==
  [][PipelineStep =>
       /\ "unhandled" \notin ev'
       /\ "error" \in ev' =>
            /\ UNCHANGED <<busVars, run, busMap, seenMap, handlerOn, cfg>>
            /\ \A h \in Handlers : hd'[h] = hd[h] \/ (hd'[h] = Hd0 /\ seen' = seen)
            /\ \E h \in Handlers : hd'[h].pc = "free"]_vars

\* A handler ended with an exception while the run is connected and waiting
\* and another frame's handler is still in flight.
ErrorWhileOthersInFlight ==
  /\ "error" \in ev
  /\ run[1].pc = "waiting" /\ bus[1].state = "connected" /\ handlerOn[1]
  /\ \E h \in Handlers : hd[h].pc = "store"

DmDrops == {"dropDisabled", "dropNotAllowed"}

\* C20 (SpecPipeline): DM policy applies to direct frames only.  Under policy
\* disabled no step of a direct frame's handler routes it; under policy open a
\* displayable, non-duplicate direct frame enters the handler and is routed
\* unless a step throws; a frame with a topic or group id is never dropped by
\* DM policy nor made to wait for the pairing store.
DmPolicyDirectOnly ==
  [][/\ \A h \in Handlers :
          /\ (Resumed(h) /\ hd[h].kind = "direct" /\ hd[h].policy = "disabled")
               => "routed" \notin ev'
          /\ (Resumed(h) /\ hd[h].kind = "direct" /\ hd[h].policy = "open")
               => "routed" \in ev' \/ "error" \in ev'
          /\ (Resumed(h) /\ hd[h].kind = "group")
               => ev' \cap DmDrops = {} /\ "upsert" \notin ev' /\ hd'[h].pc = "free"
     /\ (/\ PipelineStep /\ lastFrame'.cls \in {"direct", "group"}
         /\ lastFrame'.end # "duplicate" /\ bus[1].address # NULL) =>
           /\ lastFrame'.end \in {"entered", "error"}
           /\ lastFrame'.end = "entered" =>
                \E h \in Handlers :
                  /\ hd[h].pc = "free" /\ hd'[h].pc = "auth"
                  /\ hd'[h].policy = dmPolicyOf(cfg["default"])
                  /\ hd'[h].kind = lastFrame'.cls]_vars

\* Under policy disabled a direct frame has just been dropped while the
\* handler of a topic or group frame is in flight.
GroupFrameInFlightUnderDisabled ==
  /\ ev = {"dropDisabled"}
  /\ \E h \in Handlers : hd[h].pc = "auth" /\ hd[h].kind = "group" /\ hd[h].policy = "disabled"

\* The sender of an admission decision, as the allow-list sees it, equals an
\* entry of the list ignoring letter case, or the list holds the wildcard.
OnList(list, rawSrc) ==
  \E i \in 1..Len(list) :
    \/ list[i] = <<"*">>
    \/ toLowerCase(list[i]) = toLowerCase(stripNknSubClientPrefix(rawSrc))

\* The stored allow-list as the handler can know it: empty when it cannot be read.
StoredList == IF wire.readFails THEN << >> ELSE wire.stored

\* C21 as stated (SpecWire): under pairing or allowlist a direct frame is
\* admitted exactly when its sender is on the merge of the configured and the
\* stored allow-list.
AdmittedIffOnMergedList ==
  wire.op = "admit" => (wire.admitted <=> OnList(wire.config \o StoredList, wire.rawSrc))

\* C21 as amended (SpecWire): under pairing a direct frame is admitted exactly
\* when its sender is on the merge of the configured and the stored allow-list;
\* under allowlist exactly when it is on the configured allow-list alone.
AdmittedIffOnConsultedList ==
  wire.op = "admit" =>
    (wire.admitted <=>
       OnList(IF wire.dmPolicy = "pairing" THEN wire.config \o StoredList ELSE wire.config,
              wire.rawSrc))

\* Under allowlist a sender that is on the stored list only is not admitted.
StoredEntryIgnoredUnderAllowlist ==
  /\ wire.op = "admit" /\ wire.dmPolicy = "allowlist" /\ ~wire.readFails
  /\ OnList(wire.stored, wire.rawSrc) /\ ~OnList(wire.config, wire.rawSrc)
  /\ ~wire.admitted

\* C22 (SpecPipeline): under policy pairing, which is also the policy of an
\* account that configures none, the handler of a direct frame whose sender is
\* not on the allow-list issues one pairing-request upsert and routes nothing;
\* when the upsert has settled the frame is dropped, again without routing and
\* without a second upsert, a pairing reply is sent only if the request was
\* reported as newly created, and a reply that cannot be sent leaves the drop
\* as it is and raises nothing.
PairingNeverRoutes ==
  [][/\ \A h \in Handlers :
          /\ (Resumed(h) /\ hd[h].pc = "store") =>
               /\ hd[h].kind = "direct" /\ hd[h].policy = "pairing"
               /\ hd'[h].pc = "upsert" => ev' = {"upsert"}
          /\ (Resumed(h) /\ hd[h].pc = "upsert") =>
               /\ hd'[h].pc = "free"
               /\ ev' \cap {"routed", "upsert"} = {}
               /\ "pairingReply" \in ev' => "created" \in ev'
               /\ "error" \notin ev' => "dropNotAllowed" \in ev'
               /\ "created" \in ev' => "error" \notin ev'
     /\ (/\ PipelineStep /\ lastFrame'.end = "entered" /\ lastFrame'.cls = "direct"
         /\ cfg["default"] \in {"unset", "pairing"}) =>
           \E h \in Handlers : hd[h].pc = "free" /\ hd'[h].policy = "pairing"
     /\ \A h \in Handlers :
          (Resumed(h) /\ hd[h].pc = "auth" /\ hd[h].kind = "direct" /\ hd[h].policy = "pairing")
            => "routed" \notin ev' /\ (hd'[h].pc = "store" \/ "error" \in ev')]_vars

\* On an account that configures no policy, a newly created pairing request
\* has just been answered by a drop although its reply could not be sent.
PairingReplyFailedQuietly ==
  /\ cfg["default"] = "unset"
  /\ ev = {"dropNotAllowed", "created"}

\* The account ids that stand for the default account.
DefaultIds == {None, <<"default">>}

\* C23 (SpecWire): a direct frame gets the session key dchat:dm:<sender> when
\* the account id is absent or "default" and dchat:<accountId>:dm:<sender>
\* otherwise, and the same sender gets a different key on every other account
\* unless both accounts are the default one.
DmKeyScopedByAccount ==
  (wire.op = "decode" /\ wire.chatType = "direct") =>
    /\ wire.acct \in DefaultIds => wire.sessionKey = <<"dchat", ":", "dm", ":">> \o wire.src
    /\ wire.acct \notin DefaultIds =>
         wire.sessionKey = <<"dchat", ":">> \o wire.acct \o <<":", "dm", ":">> \o wire.src
    /\ \A other \in AccountIds :
         (other # wire.acct /\ ~(other \in DefaultIds /\ wire.acct \in DefaultIds)) =>
           sessionKey(wire.src, None, None, other) # wire.sessionKey

\* A direct frame was decoded for an account other than the default one, whose
\* id and sender address both contain a colon.
ScopedKeyDecoded ==
  /\ wire.op = "decode" /\ wire.chatType = "direct"
  /\ wire.acct \notin DefaultIds
  /\ \E i \in 1..Len(wire.acct) : wire.acct[i] = ":"
  /\ \E i \in 1..Len(wire.src) : wire.src[i] = ":"

\* C24 (SpecWire): the extractors invert the key builders.  For every topic
\* name T the topic extractor returns T from "dchat:topic:" + T, for every group
\* id G the group extractor returns G from "dchat:group:" + G, and for every
\* address A and account id the DM extractor returns A from dchat:dm:A and from
\* dchat:<accountId>:dm:A.
ExtractorsInvertBuilders ==
  wire.op = "extract" =>
    /\ \A T \in Names : wire.key = <<"dchat", ":", "topic", ":">> \o T => wire.topic = T
    /\ \A G \in Names : wire.key = <<"dchat", ":", "group", ":">> \o G => wire.groupId = G
    /\ \A A \in Names : wire.key = <<"dchat", ":", "dm", ":">> \o A => wire.dm = A
    /\ \A A \in Names, a \in AccountIds \ {None} :
         wire.key = <<"dchat", ":">> \o a \o <<":", "dm", ":">> \o A => wire.dm = A

\* The kind of the key that nknToInbound made.
KeyKind == IF wire.topic # None THEN "topic" ELSE IF wire.groupId # None THEN "group" ELSE "dm"

\* C25 (SpecWire): for every session key that nknToInbound produces, exactly
\* the extractor of that key's kind returns a value.
OnlyOwnExtractorMatches ==
  wire.op = "decode" =>
    /\ extractTopicFromSessionKey(wire.sessionKey) # None <=> KeyKind = "topic"
    /\ extractGroupIdFromSessionKey(wire.sessionKey) # None <=> KeyKind = "group"
    /\ extractDmAddressFromSessionKey(wire.sessionKey) # None <=> KeyKind = "dm"

\* C27 (SpecWire): the body of a displayable envelope follows the derivation
\* table.  text and textExtension give the content, or the empty string when
\* there is none; ipfs gives [Image] for subtype image or no subtype, [Audio]
\* for audio, [File: name] or [File] for file according to whether there is a
\* file name, [IPFS content] for every other subtype; audio gives
\* [Voice Message], image [Image], video [Video], file [File].
BodyFollowsTable ==
  wire.op = "body" =>
    LET subtype == CASE wire.fileType \in {"n1", "s1"} -> "image"
                     [] wire.fileType \in {"n2", "s2"} -> "audio"
                     [] wire.fileType \in {"n0", "s0"} -> "file"
                     [] wire.fileType = "undefined" -> "unspecified"
                     [] OTHER -> "other"
        named == wire.fileName \notin {Absent, << >>}
    IN  CASE wire.ct \in {"text", "textExtension"} ->
               wire.body = (IF wire.content = Absent THEN << >> ELSE wire.content)
          [] wire.ct = "ipfs" /\ subtype \in {"image", "unspecified"} -> wire.body = <<"[Image]">>
          [] wire.ct = "ipfs" /\ subtype = "audio" -> wire.body = <<"[Audio]">>
          [] wire.ct = "ipfs" /\ subtype = "file" /\ named ->
               wire.body = <<"[File: ">> \o wire.fileName \o <<"]">>
          [] wire.ct = "ipfs" /\ subtype = "file" /\ ~named -> wire.body = <<"[File]">>
          [] wire.ct = "ipfs" /\ subtype = "other" -> wire.body = <<"[IPFS content]">>
          [] wire.ct = "audio" -> wire.body = <<"[Voice Message]">>
          [] wire.ct = "image" -> wire.body = <<"[Image]">>
          [] wire.ct = "video" -> wire.body = <<"[Video]">>
          [] wire.ct = "file" -> wire.body = <<"[File]">>

\* An ipfs envelope without a subtype was decoded as an image although it
\* carries content and a file name.
IpfsWithoutSubtypeIsImage ==
  /\ wire.op = "body" /\ wire.ct = "ipfs" /\ wire.fileType = "undefined"
  /\ wire.content # Absent /\ wire.fileName = <<"x">>
  /\ wire.body = <<"[Image]">>

\* C26 (SpecWire): a text sent through textToNkn, JSON.stringify,
\* parseNknPayload and nknToInbound comes back non-null with the same body,
\* with chat type group exactly when a topic or a group id was given, and with
\* the session key of the topic, else of the group id, else of the sender.
RoundTripKeepsText ==
  wire.op = "roundTrip" =>
    /\ ~wire.isNull
    /\ wire.body = wire.text
    /\ wire.chatType = "group" <=> (wire.topic # None \/ wire.groupId # None)
    /\ wire.chatType \in {"group", "direct"}
    /\ wire.sessionKey =
         (IF wire.topic # None THEN <<"dchat", ":", "topic", ":">> \o wire.topic
          ELSE IF wire.groupId # None THEN <<"dchat", ":", "group", ":">> \o wire.groupId
          ELSE <<"dchat", ":", "dm", ":">> \o wire.addr)

\* A text of a backslash and a quote, sent to a topic whose name is a quote,
\* came back unchanged.
EscapedTextCameBack ==
  /\ wire.op = "roundTrip" /\ wire.text = <<"\\", "\"">> /\ wire.topic = <<"\"">>
  /\ wire.body = wire.text /\ wire.sessionKey = <<"dchat", ":", "topic", ":", "\"">>

\* What belongs to the account of run r: its bus (client, state, address),
\* its dedup cache, and the account's entries in the bus and cache registries.
AccountState(r) == <<bus[r], seen[r], busMap[AccountOf(r)], seenMap[AccountOf(r)]>>

\* The step is one of run r: of its startAccount, its connect, its abort
\* signal, or of a handler of one of its frames that had an effect.
StepOf(r) ==
  \/ <<run[r], att[r], sig[r], bus[r], seen[r], passed[r], handlerOn[r]>>'
       # <<run[r], att[r], sig[r], bus[r], seen[r], passed[r], handlerOn[r]>>
  \/ \E h \in Handlers : hd'[h] # hd[h] /\ (hd[h].run = r \/ hd'[h].run = r)

\* C28 (SpecAccounts): accounts are isolated.  No step of one account, be it
\* the handling of a frame, the stopping of the account or the failure of its
\* connect, changes the bus, the address, the dedup cache or the registry
\* entries of the other account; and a frame whose id the receiving account's
\* cache does not hold passes that account's gate whatever the other account
\* has seen.
AccountsIsolated ==
  [][/\ \A r \in 1..2, q \in 1..2 :
          (r # q /\ StepOf(r)) => AccountState(q)' = AccountState(q)
     /\ \A q \in 1..2, f \in {g \in FramesOver({1}) : g.sub = NULL} :
          (/\ Deliver(q, f) /\ ~Rejected(f)
           /\ \A j \in 1..Len(seen[q]) : seen[q][j] # f.id)
            => lastFrame'.end # "duplicate" /\ passed'[q][f.id] = passed[q][f.id] + 1]_vars

\* The same message id has passed the gate of both accounts, and the first
\* account has been stopped and torn down while the second is still connected
\* and still holds the id.
SameIdPassedOnBothAccounts ==
  /\ passed[1][1] = 1 /\ passed[2][1] = 1
  /\ run[1].pc = "done" /\ busMap["default"] = NULL
  /\ run[2].pc = "waiting" /\ bus[2].state = "connected" /\ busMap["work"] = 2
  /\ Len(seen[2]) = 1

\* What the DM policy block and the code after it can do.
PolicyEffects == {"dropDisabled", "dropNotAllowed", "upsert", "created", "pairingReply",
                  "dropCommand", "routed"}

\* C29 (SpecPipeline): the steps of a frame come in the fixed order parse,
\* dedup gate, decode, receipt, DM policy, routing.  A frame dropped at the
\* parse or at the gate marks nothing, sends no receipt and enters no handler;
\* one dropped at the decode has passed the gate but sends no receipt and
\* enters no handler; the receipt is sent in the segment that enters the
\* handler, in which no policy is evaluated and nothing is routed; policy and
\* routing happen in later segments of an entered handler, which send no
\* receipt, and a segment that drops the frame does not route it.
PipelineOrder ==
  [][/\ PipelineStep /\ lastFrame'.end \in {"malformed", "duplicate"} =>
          /\ seen' = seen /\ passed' = passed /\ hd' = hd /\ ev' = {}
     /\ PipelineStep /\ lastFrame'.end = "control" =>
          /\ passed' # passed /\ hd' = hd /\ ev' = {}
     /\ PipelineStep /\ lastFrame'.end \in {"entered", "error"} =>
          /\ passed' # passed
          /\ ev' \cap PolicyEffects = {}
          /\ lastFrame'.end = "error" => hd' = hd
          /\ lastFrame'.end = "entered" =>
               \E h \in Handlers : hd[h].pc = "free" /\ hd'[h].pc = "auth"
     /\ PipelineStep /\ "receipt" \in ev' => lastFrame'.end \in {"entered", "error"}
     /\ \A h \in Handlers :
          Resumed(h) =>
            /\ seen' = seen /\ passed' = passed
            /\ "receipt" \notin ev'
            /\ ev' \cap (DmDrops \cup {"dropCommand"}) # {} =>
                 "routed" \notin ev' /\ hd'[h].pc = "free"
            /\ hd[h].pc = "auth" => ev' \cap {"upsert", "pairingReply"} = {}
            /\ "routed" \in ev' => hd'[h].pc = "free"
     /\ PipelineStep /\ ev' \cap PolicyEffects # {} => \E h \in Handlers : Resumed(h)]_vars

\* The receipt of a direct frame has been sent and its handler has not yet
\* evaluated the DM policy, which is disabled and will drop the frame.
ReceiptSentBeforePolicyDrop ==
  /\ ev = {"receipt"} /\ lastFrame.end = "entered" /\ lastFrame.cls = "direct"
  /\ \E h \in Handlers : hd[h].pc = "auth" /\ hd[h].policy = "disabled" /\ hd[h].kind = "direct"

\* The abort signal of the run has fired and its finally block has
\* disconnected the bus.
TornDown == sig[1] = "fired" /\ run[1].pc \in {"finally", "done"}

\* C30 (SpecStop): once the cancellation has fired and the bus has been torn
\* down, a frame that the relay client still delivers ends at the parse, at
\* the dedup gate or at the missing address: it sends no receipt, enters no
\* handler, and so causes no pairing request and no routing.
NoProcessingAfterTeardown ==
  [][(TornDown /\ PipelineStep /\ lastFrame'.end # "resumed") =>
       /\ lastFrame'.end \in {"malformed", "duplicate", "noAddress"}
       /\ ev' = {}
       /\ hd' = hd]_vars

\* Under policy pairing a displayable direct frame delivered after the
\* teardown has been dropped for want of an address.
DirectFrameDroppedAfterTeardown ==
  /\ TornDown /\ run[1].pc = "done" /\ cfg["default"] = "pairing"
  /\ lastFrame.end = "noAddress" /\ lastFrame.cls = "direct"
  /\ \A h \in Handlers : hd[h].pc = "free"

\* C31 (SpecPipeline): a failed receipt send is not fatal.  A displayable frame
\* that passes the dedup gate on a bus with an address enters its handler with
\* the account's policy and its own chat type whether or not the receipt went
\* out, unless a call of the host throws; the segment that enters the handler
\* ends in no error, with or without the receipt; and what the handler does
\* afterwards depends on nothing the receipt send left behind.
ReceiptFailureNotFatal ==
  [][(/\ PipelineStep /\ lastFrame'.cls \in {"direct", "group"}
      /\ lastFrame'.end # "duplicate" /\ bus[1].address # NULL) =>
        /\ lastFrame'.end \in {"entered", "error"}
        /\ lastFrame'.end = "error" <=> "error" \in ev'
        /\ lastFrame'.end = "entered" =>
             /\ ev' \subseteq {"receipt"}
             /\ \E h \in Handlers :
                  /\ hd[h].pc = "free"
                  /\ hd' = [hd EXCEPT ![h] = [pc |-> "auth", run |-> 1, id |-> hd'[h].id,
                                              kind |-> lastFrame'.cls,
                                              policy |-> dmPolicyOf(cfg["default"])]]
        /\ UNCHANGED <<busVars, run, busMap, seenMap, handlerOn, cfg>>]_vars

\* On a connected bus the receipt of a direct frame could not be sent, and the
\* frame's handler has been entered all the same and awaits its policy check.
EnteredWithoutReceipt ==
  /\ lastFrame.end = "entered" /\ lastFrame.cls = "direct" /\ ev = {}
  /\ bus[1].state = "connected" /\ bus[1].client # NULL
  /\ \E h \in Handlers : hd[h].pc = "auth" /\ hd[h].kind = "direct"

\* C32 (SpecBus): the state, the address and the client of the bus are
\* changed only by connect and disconnect.  A call of send, sendNoReply,
\* sendToMultiple, subscribe, unsubscribe or getSubscribers, refused, issued
\* and successful, or issued and failed, leaves all three as they are, closes
\* no client and touches no connect call in flight.
OnlyConnectAndDisconnectChangeState ==
  [][lastOp' # lastOp =>
       /\ bus' = bus
       /\ closeCalled' = closeCalled
       /\ att' = att /\ sig' = sig]_vars

\* An operation issued on the connected bus has failed, and the bus is still
\* connected with its client and its address.
OpFailedBusStillConnected ==
  /\ lastOp.result = "rejected"
  /\ bus[TheBus].state = "connected"
  /\ bus[TheBus].client # NULL /\ bus[TheBus].address # NULL

\* C33 (SpecBus): after a successful connect the state is connected and the
\* address is the held client's; each frame a relay client delivers produces
\* exactly one message event, that is, the connect calls of the bus have
\* registered at most one emitting onMessage callback on any one client; and
\* a callback is registered only by a bus that has been connected.
OneMessageEventPerFrame ==
  \A c \in Conn :
    /\ Cardinality({k \in Conn : att[k].onMessage = c}) <= 1
    /\ msgCb[c] # NULL => everConn[msgCb[c]]

\* C34 (SpecWire): the reply delivery callback sends to the destination of
\* the frame's session key.  The key of a frame with a topic gives one
\* broadcast to the topic's subscribers other than the account itself, and no
\* send when there is none; the key of a frame with a group id and no topic
\* gives one send to the group id; the key of a direct frame gives one send to
\* the frame's sender; an empty reply text sends nothing.
ReplyGoesWhereKeySays ==
  wire.op = "reply" =>
    IF wire.text = None THEN wire.sends = {}
    ELSE IF wire.topic # None
      THEN IF wire.subscribers \ {wire.self} = {} THEN wire.sends = {}
           ELSE wire.sends = {[op |-> "sendToMultiple",
                               dests |-> wire.subscribers \ {wire.self},
                               topic |-> wire.topic]}
    ELSE IF wire.groupId # None
      THEN \E op \in BusOps : wire.sends = {[op |-> op, dests |-> {wire.groupId}, topic |-> None]}
    ELSE \E op \in BusOps : wire.sends = {[op |-> op, dests |-> {wire.src}, topic |-> None]}

\* C35 (SpecWire): direct text replies use the acknowledged send.  Every
\* call the reply callback of a direct frame makes on the bus, and every call
\* sendText makes for a target that is neither topic:<name> nor group:<id>, is
\* a call of send, never of sendNoReply.
DirectRepliesAcknowledged ==
  /\ (wire.op = "reply" /\ wire.topic = None /\ wire.groupId = None) =>
       \A c \in wire.sends : c.op = "send"
  /\ (wire.op = "sendText" /\ (Len(wire.to) < 3 \/ wire.to[2] # ":"
                                 \/ wire.to[1] \notin {"topic", "group"})) =>
       /\ wire.sends # {}
       /\ \A c \in wire.sends : c.op = "send"

\* C36 (SpecBus): the outcome of a superseded connect call never changes the
\* newer connection.  When the continuation of a connect call runs (its
\* promise settled by the timer, the abort or the connected notification)
\* after a later connect call has begun, it leaves the state, the address and
\* the client of the bus as they are and closes no client.
SupersededConnectIsInert ==
  [][\A k \in Conn :
       (/\ att[k].pc = "pending" /\ att'[k].pc = "done"
        /\ \E j \in Conn : j > k /\ att[j].pc # "idle") =>
         /\ bus' = bus
         /\ closeCalled' = closeCalled]_vars

\* C37 (SpecBus): in every reachable state of a bus an address is recorded
\* only while the state is connected, and a relay client is held exactly when
\* the state is connecting or connected.
AddressAndClientFollowState ==
  \A b \in Conn :
    /\ bus[b].address # NULL => bus[b].state = "connected"
    /\ bus[b].client # NULL <=> bus[b].state \in {"connecting", "connected"}

\* C38 (SpecPipeline): the dedup gate keys on the envelope id alone and marks
\* it before decode and policy.  Every well-formed frame the handler is given,
\* whatever its content type and addressing and whatever the dmPolicy, leaves
\* its id in the cache in the very step that receives it; and a well-formed
\* frame whose id is in the cache is dropped at the gate: it changes neither
\* the cache nor any handler and sends nothing.
GateKeysOnIdAlone ==
  [][(/\ PipelineStep /\ lastFrame'.cls \in {"skipped", "direct", "group"}
      /\ \A h \in Handlers : ~Resumed(h)) =>
        /\ Has(seen'[1], lastFrame'.id)
        /\ Has(seen[1], lastFrame'.id) =>
             /\ lastFrame'.end = "duplicate"
             /\ seen' = seen /\ hd' = hd /\ ev' = {}
        /\ ~Has(seen[1], lastFrame'.id) => lastFrame'.end # "duplicate"]_vars

\* A direct frame has been dropped at the gate under policy disabled: the
\* frame that put its id into the cache was a control or group frame or a
\* direct frame the policy dropped, and no handler is working on that id.
DisplayableDroppedByEarlierId ==
  /\ lastFrame.end = "duplicate" /\ lastFrame.cls = "direct"
  /\ cfg["default"] = "disabled"
  /\ Has(seen[1], lastFrame.id)
  /\ \A h \in Handlers : hd[h].id # lastFrame.id

\* C39 (SpecPipeline): the driver sends nothing in response to a control
\* envelope, a duplicate or a malformed frame.  The step that receives such a
\* frame sends nothing, a receipt least of all, and starts no handler, and
\* every handler in flight works on a displayable frame, so that no later
\* step sends anything on behalf of such a frame either.  A received receipt is
\* a control envelope: it is answered by nothing, and an exchange of receipts
\* ends with the first one.
NothingSentForDroppedFrames ==
  [][/\ (/\ PipelineStep /\ (\A h \in Handlers : ~Resumed(h))
         /\ \/ lastFrame'.cls \in {"rejected", "skipped"}
            \/ lastFrame'.end = "duplicate") =>
           /\ ev' = {}
           /\ hd' = hd
     /\ \A h \in Handlers : hd'[h].pc # "free" => hd'[h].kind \in {"direct", "group"}
     /\ "receipt" \in ev' => /\ lastFrame'.cls \in {"direct", "group"}
                             /\ lastFrame'.end \in {"entered", "error"}]_vars

\* A control envelope has passed the gate on a connected bus under policy open
\* and nothing was sent for it; no handler is in flight.
ControlEnvelopeUnanswered ==
  /\ lastFrame.end = "control" /\ lastFrame.cls = "skipped" /\ ev = {}
  /\ ensureConnected(bus[1]) /\ cfg["default"] = "open"
  /\ \A h \in Handlers : hd[h] = Hd0

\* C40 (Spec): a run of an account that was started after an earlier run of
\* the same account keeps its registration.  While the latest run of an
\* account is connected and has not begun its own teardown, the registry
\* returns that run's bus and dedup cache for the account id, whatever the
\* earlier run does.
LatestRunStaysRegistered ==
  \A r \in Runs :
    (/\ run[r].hasBus /\ run[r].pc \in {"connecting", "waiting", "woken"}
     /\ bus[r].state = "connected"
     /\ \A q \in Runs : q > r => ~(run[q].hasBus /\ run[q].acct = run[r].acct)) =>
       /\ busMap[run[r].acct] = r
       /\ seenMap[run[r].acct] = r

====
